---- MODULE Spec2Model ----
(***************************************************************************)
(* Medic Papers Boost CS: the App shell (src/index.tsx), the QuizView      *)
(* session state machine (src/components/QuizView.tsx, consolidated in     *)
(* src/index.tsx) and the FlashcardsView deck                              *)
(* (src/components/FileUpload.tsx, consolidated in src/index.tsx).         *)
(*                                                                         *)
(* One step of the model is one browser event handled to completion: the   *)
(* handler, the re-render it causes and the effects of that render.        *)
(* React flushes the effects of a render before it handles the next        *)
(* discrete event, so no handler observes an unsettled effect.             *)
(***************************************************************************)
EXTENDS Integers, Sequences, FiniteSets, TLC

\* ------------------------------------------------------------------ bounds

\* Options offered by each question (the prompt asks the model for 4).
NumOptions == 2

\* Largest pool the shuffle bijection is enumerated for.
MaxPool == 4

\* Articles saved to the library in one run.
MaxSaves == 2

\* Ticks of the wall clock in one run.
MaxTicks == 1

\* Longest flashcard field the CSV export is enumerated for.
MaxFieldLen == 3

\* Clicks on Export in one run.
MaxExports == 2

\* ------------------------------------------------------- program constants

\* Math.min(5, available): the floor of the count slider.
MinCount == 5

\* Math.min(20, maxQuestionsAvailable): the quiz ceiling.
MaxQuizCount == 20

\* useState(10): the initial requested count of both views.
InitialCount == 10

\* ------------------------------------------------------------- JS values

\* null of a (number | null) value.
null == -1

\* null of an (object | null) value.
nullObject == [isNull |-> TRUE]

\* null of a (string | null) value, and of File | null.
nullString == "null"

Min(a, b) == IF a < b THEN a ELSE b

Max(a, b) == IF a > b THEN a ELSE b

Range(s) == {s[i] : i \in 1..Len(s)}

\* Array.prototype.slice(0, n) for 0 <= n.
Slice(s, n) == SubSeq(s, 1, Min(n, Len(s)))

\* [...new Set(s)]: the distinct members in order of first occurrence.
RECURSIVE Distinct(_)
Distinct(s) ==
  IF s = <<>> THEN <<>>
  ELSE LET r == Distinct(SubSeq(s, 1, Len(s) - 1))
       IN IF s[Len(s)] \in Range(r) THEN r ELSE Append(r, s[Len(s)])

\* Array(n).fill(null)
NullArray(n) == [i \in 1..n |-> null]

\* ------------------------------------------------------------ the documents

\* The questions of a quiz, given the topic of each: question k has id k
\* and its correct option cycles through the options.
MkQuestions(base, topics) ==
  [k \in 1..Len(topics) |->
     [id |-> base + k, topic |-> topics[k], correctAnswerIndex |-> k % NumOptions]]

MkFlashcards(base, topics) ==
  [k \in 1..Len(topics) |-> [id |-> base + k, topic |-> topics[k]]]

Repeat(x, n) == [k \in 1..n |-> x]

\* The AnalysisResult values the AI service returns and the library holds.
\* 1..3 are small documents; 2 carries the same quiz title as 1 with other
\* questions and other score settings; 4 has six items per pool; 5 has more
\* items than the quiz ceiling; 6 carries the quiz title of 1 and an empty
\* list of questions, which the validation of the response accepts
\* (index.tsx 210 tests only that the list is present).
Analyses ==
  << [quizTitle |-> "t1", settings |-> [positiveScore |-> 2, negativeScore |-> -1],
      questions |-> MkQuestions(10, <<"a", "b", "a">>),
      flashcards |-> MkFlashcards(10, <<"a", "b">>)],
     [quizTitle |-> "t1", settings |-> [positiveScore |-> 3, negativeScore |-> 0],
      questions |-> MkQuestions(20, <<"c">>),
      flashcards |-> MkFlashcards(20, <<"c">>)],
     [quizTitle |-> "t2", settings |-> [positiveScore |-> 2, negativeScore |-> -1],
      questions |-> MkQuestions(30, <<"a">>),
      flashcards |-> <<>>],
     [quizTitle |-> "t4", settings |-> [positiveScore |-> 10, negativeScore |-> -5],
      questions |-> MkQuestions(40, Repeat("a", 5) \o <<"b">>),
      flashcards |-> MkFlashcards(40, Repeat("a", 5) \o <<"b">>)],
     [quizTitle |-> "t5", settings |-> [positiveScore |-> 10, negativeScore |-> -5],
      questions |-> MkQuestions(100, Repeat("a", 3) \o Repeat("b", 4) \o Repeat("c", 15)),
      flashcards |-> MkFlashcards(100, Repeat("a", 3) \o Repeat("b", 4) \o Repeat("c", 15))],
     [quizTitle |-> "t1", settings |-> [positiveScore |-> 2, negativeScore |-> -1],
      questions |-> <<>>,
      flashcards |-> MkFlashcards(60, <<"a">>)] >>

\* The documents of the application session: what the AI service returns
\* for an upload and what the library holds from earlier sessions.
SmallResults == {1, 2, 3}

ArticleOf(id, r, at) ==
  [id |-> id, fileName |-> "saved.pdf", specialty |-> "General",
   analysisResult |-> r, savedAt |-> at]

SavedArticleOf(r) == ArticleOf(r, r, r)

\* getLibrary() at start-up: the articles saved by earlier sessions.
InitialLibrary == << SavedArticleOf(3), SavedArticleOf(2), SavedArticleOf(1) >>

UploadFiles == {"new.pdf"}

\* ---------------------------------------------------------------- the state

VARIABLES
  \* App (src/index.tsx 554-570)
  isLoading, error, analysisResult, currentView, fileName, appState, library,
  isCurrentArticleSaved, apiKeySelected, pendingFile,
  \* sessionStorage 'gemini_api_key' present; analyses awaiting their promise
  storedKey, inFlight,
  \* localStorage[LOCAL_STORAGE_KEY]
  quizProgress,
  \* QuizView (src/components/QuizView.tsx 42-56)
  quizStarted, numQuestions, activeQuestions, currentQuestionIndex, score,
  selectedAnswerIndex, isAnswered, showExplanation, quizFinished, userAnswers,
  savedProgress, selectedTopics,
  \* setTimeout callbacks of the mounted QuizView not yet run
  timers,
  \* history: the branch the load effect of the mounted QuizView took
  mountFound,
  \* FlashcardsView (src/components/FileUpload.tsx 110-118)
  deckStarted, numFlashcards, activeFlashcards, fcSelectedTopics, currentIndex,
  isFlipped,
  \* the shuffle on its own: the pool size, two sequences of draws and the
  \* permutations the loop makes of them
  poolSize, drawsA, drawsB, shuffledA, shuffledB,
  \* the finished screen on its own: a deck size, a number of correct
  \* answers and the percentage and verdict rendered for them
  deckSize, correctCount, percentageShown, passedShown,
  \* the library key of localStorage, the wall clock and the next unused
  \* article id (index.tsx 55-97)
  libraryStore, clock, nextId,
  \* history: the id the latest saveArticle gave with the list getLibrary
  \* returned before it, and whether that very article was then deleted
  lastSaved, undone,
  \* two browser tabs inside a call of saveArticle or deleteArticle each:
  \* where the call stands, what it is asked and the list it read
  tabs,
  \* the CSV export on its own: the flashcards exported and the files the
  \* clicks on Export produced
  csv,
  \* the service worker on its own: the request being fetched and the
  \* response it was answered with
  worker,
  \* the loader script on its own: how far the registration got and how
  \* often the main script was added to the page
  loader

appVars == <<isLoading, error, analysisResult, currentView, fileName, appState,
             library, isCurrentArticleSaved, apiKeySelected, pendingFile,
             storedKey, inFlight>>

quizVars == <<quizStarted, numQuestions, activeQuestions, currentQuestionIndex,
              score, selectedAnswerIndex, isAnswered, showExplanation,
              quizFinished, userAnswers, savedProgress, selectedTopics, timers,
              mountFound>>

fcVars == <<deckStarted, numFlashcards, activeFlashcards, fcSelectedTopics,
            currentIndex, isFlipped>>

shuffleVars == <<poolSize, drawsA, drawsB, shuffledA, shuffledB>>

finishedVars == <<deckSize, correctCount, percentageShown, passedShown>>

libVars == <<libraryStore, clock, nextId, lastSaved, undone, tabs>>

sideVars == <<csv, worker, loader>>

\* The state no handler of the views touches.
labVars == <<shuffleVars, finishedVars, libVars, sideVars>>

vars == <<appVars, quizProgress, quizVars, fcVars, labVars>>

\* ------------------------------------------------------------ localStorage

\* getItem of a key never set: null.
absent == [absent |-> TRUE]

\* A stored string that JSON.parse rejects.
corrupt == [valid |-> FALSE]

\* JSON.stringify / JSON.parse of a SavedQuizState: strings, finite numbers,
\* null and arrays of them survive the round trip unchanged; the stored
\* item is the text, the parsed value is the object.
JSONstringify(v) == [valid |-> TRUE, text |-> v]

JSONparse(item) == item.text


\* ------------------------------------------------- QuizView: derived values

\* The Quiz of an AnalysisResult (0: no result).
QuizOf(r) == Analyses[r]

\* allTopics (QuizView.tsx 55)
AllTopics(questions) == Distinct([k \in 1..Len(questions) |-> questions[k].topic])

\* filteredQuestions (QuizView.tsx 58-60), filteredFlashcards (FileUpload.tsx 120-122)
Filtered(items, topics) == SelectSeq(items, LAMBDA q : q.topic \in Range(topics))

\* minQuestions (QuizView.tsx 63), minFlashcards (FileUpload.tsx 125)
MinOf(available) == Min(MinCount, available)

\* maxQuestions without the cap of twenty.
MaxQuestionsUncapped(available) == available

\* maxQuestions (QuizView.tsx 64)
MaxQuestionsOf(available) == Min(MaxQuizCount, available)

\* maxFlashcards (FileUpload.tsx 126)
MaxFlashcardsOf(available) == Max(MinOf(available), available)

\* The clamping effect run to its fixed point (QuizView.tsx 86-104,
\* FileUpload.tsx 128-145): the count it leaves for a requested count.
ClampEffect(num, available, lo, hi) ==
  IF available = 0 THEN 0
  ELSE LET c1 == IF num > hi THEN hi ELSE num
           c2 == IF c1 < lo THEN lo ELSE c1
       IN c2

QuizClamp(num, r, topics) ==
  LET n == Len(Filtered(QuizOf(r).questions, topics))
  IN ClampEffect(num, n, MinOf(n), MaxQuestionsOf(n))

FlashClamp(num, r, topics) ==
  LET n == Len(Filtered(Analyses[r].flashcards, topics))
  IN ClampEffect(num, n, MinOf(n), MaxFlashcardsOf(n))

\* --------------------------------------------------------- what is rendered

\* renderContent / renderAnalysisView (index.tsx 694-752): the branch that
\* shows the tabs of an analysis result.
ResultShown(key, state, loading, err, result) ==
  key /\ state = "analysis" /\ ~loading /\ err = nullString /\ result # 0

QuizViewRendered ==
  ResultShown(apiKeySelected, appState, isLoading, error, analysisResult)
  /\ currentView = "quiz"

FlashcardsViewRendered ==
  ResultShown(apiKeySelected, appState, isLoading, error, analysisResult)
  /\ currentView = "flashcards"

\* ------------------------------------------------ mounting and unmounting

\* The load-saved-progress effect of the mount (QuizView.tsx 66-84): the
\* savedProgress it sets and the item it leaves under the key.
\* The load effect without its removal of a snapshot of another title.
LoadSavedProgressKeepingOther(item, r) ==
  IF item = absent THEN [saved |-> nullObject, item |-> absent, found |-> "nothing"]
  ELSE IF ~item.valid THEN [saved |-> nullObject, item |-> absent, found |-> "unreadable"]
  ELSE IF JSONparse(item).quizTitle = QuizOf(r).quizTitle
       THEN [saved |-> JSONparse(item), item |-> item, found |-> "same title"]
       ELSE [saved |-> nullObject, item |-> item, found |-> "other title"]

LoadSavedProgress(item, r) ==
  IF item = absent THEN [saved |-> nullObject, item |-> absent, found |-> "nothing"]
  ELSE IF ~item.valid THEN [saved |-> nullObject, item |-> absent, found |-> "unreadable"]
  ELSE IF JSONparse(item).quizTitle = QuizOf(r).quizTitle
       THEN [saved |-> JSONparse(item), item |-> item, found |-> "same title"]
       ELSE [saved |-> nullObject, item |-> absent, found |-> "other title"]

\* A QuizView mounts on result r with `item` under the progress key: the
\* useState initial values (QuizView.tsx 42-56) and both effects.
MountQuizView(item, r) ==
  /\ quizStarted' = FALSE
  /\ activeQuestions' = <<>>
  /\ currentQuestionIndex' = 0
  /\ score' = 0
  /\ selectedAnswerIndex' = null
  /\ isAnswered' = FALSE
  /\ showExplanation' = FALSE
  /\ quizFinished' = FALSE
  /\ userAnswers' = <<>>
  /\ selectedTopics' = AllTopics(QuizOf(r).questions)
  /\ numQuestions' = QuizClamp(InitialCount, r, AllTopics(QuizOf(r).questions))
  /\ timers' = 0
  /\ savedProgress' = LoadSavedProgress(item, r).saved
  /\ quizProgress' = LoadSavedProgress(item, r).item
  /\ mountFound' = LoadSavedProgress(item, r).found

\* No QuizView exists: its state is gone, and a timer of the unmounted
\* component sets state on nothing.
NoQuizView ==
  /\ quizStarted' = FALSE
  /\ activeQuestions' = <<>>
  /\ currentQuestionIndex' = 0
  /\ score' = 0
  /\ selectedAnswerIndex' = null
  /\ isAnswered' = FALSE
  /\ showExplanation' = FALSE
  /\ quizFinished' = FALSE
  /\ userAnswers' = <<>>
  /\ selectedTopics' = <<>>
  /\ numQuestions' = InitialCount
  /\ timers' = 0
  /\ savedProgress' = nullObject
  /\ mountFound' = "unmounted"

\* A FlashcardsView mounts on result r (FileUpload.tsx 110-118, 128-145).
MountFlashcardsView(r) ==
  /\ deckStarted' = FALSE
  /\ activeFlashcards' = <<>>
  /\ fcSelectedTopics' = AllTopics(Analyses[r].flashcards)
  /\ numFlashcards' = FlashClamp(InitialCount, r, AllTopics(Analyses[r].flashcards))
  /\ currentIndex' = 0
  /\ isFlipped' = FALSE

NoFlashcardsView ==
  /\ deckStarted' = FALSE
  /\ activeFlashcards' = <<>>
  /\ fcSelectedTopics' = <<>>
  /\ numFlashcards' = InitialCount
  /\ currentIndex' = 0
  /\ isFlipped' = FALSE

\* The re-render after an App handler that left `item` under the progress
\* key: views that stay keep their state, views that appear mount, views
\* that disappear are destroyed (index.tsx 697).
Rerender(item) ==
  /\ IF QuizViewRendered'
     THEN IF QuizViewRendered
          THEN UNCHANGED quizVars /\ quizProgress' = item
          ELSE MountQuizView(item, analysisResult')
     ELSE NoQuizView /\ quizProgress' = item
  /\ IF FlashcardsViewRendered'
     THEN IF FlashcardsViewRendered
          THEN UNCHANGED fcVars
          ELSE MountFlashcardsView(analysisResult')
     ELSE NoFlashcardsView

\* ------------------------------------------------------------------- App

\* The Header is always rendered; the other screens need a selected key
\* (renderContent, index.tsx 702-752).
HomeShown == apiKeySelected /\ appState = "home"

LibraryShown == apiKeySelected /\ appState = "library"

AnalysisShown == apiKeySelected /\ appState = "analysis"

\* handleSaveManualKey with a non-empty key (index.tsx 629-640)
handleSaveManualKey ==
  /\ ~apiKeySelected
  /\ storedKey' = TRUE
  /\ apiKeySelected' = TRUE
  /\ UNCHANGED <<isLoading, error, analysisResult, currentView, fileName, appState,
                 library, isCurrentArticleSaved, pendingFile, inFlight>>
  /\ Rerender(quizProgress)
  /\ UNCHANGED labVars

\* handleViewLibrary (index.tsx 689)
handleViewLibrary ==
  /\ appState' = "library"
  /\ UNCHANGED <<isLoading, error, analysisResult, currentView, fileName, library,
                 isCurrentArticleSaved, apiKeySelected, pendingFile, storedKey,
                 inFlight>>
  /\ Rerender(quizProgress)
  /\ UNCHANGED labVars

\* handleResetToHome (index.tsx 687): the library's Back to Home
handleResetToHome ==
  /\ LibraryShown
  /\ analysisResult' = 0
  /\ error' = nullString
  /\ fileName' = ""
  /\ pendingFile' = nullString
  /\ appState' = "home"
  /\ UNCHANGED <<isLoading, currentView, library, isCurrentArticleSaved,
                 apiKeySelected, storedKey, inFlight>>
  /\ Rerender(absent)
  /\ UNCHANGED labVars

\* handleStartNewAnalysis also taking the spinner down.
handleStartNewAnalysisStoppingSpinner ==
  /\ \/ HomeShown
     \/ AnalysisShown /\ ~isLoading /\ (error # nullString \/ analysisResult # 0)
  /\ analysisResult' = 0
  /\ error' = nullString
  /\ fileName' = ""
  /\ pendingFile' = nullString
  /\ appState' = "analysis"
  /\ isLoading' = FALSE
  /\ UNCHANGED <<currentView, library, isCurrentArticleSaved,
                 apiKeySelected, storedKey, inFlight>>
  /\ Rerender(absent)
  /\ UNCHANGED labVars

\* handleStartNewAnalysis (index.tsx 688): Home's Get Started, the error
\* screen's Try Again and the result screen's Analyze New
handleStartNewAnalysis ==
  /\ \/ HomeShown
     \/ AnalysisShown /\ ~isLoading /\ (error # nullString \/ analysisResult # 0)
  /\ analysisResult' = 0
  /\ error' = nullString
  /\ fileName' = ""
  /\ pendingFile' = nullString
  /\ appState' = "analysis"
  /\ UNCHANGED <<isLoading, currentView, library, isCurrentArticleSaved,
                 apiKeySelected, storedKey, inFlight>>
  /\ Rerender(absent)
  /\ UNCHANGED labVars

\* handleViewSavedArticle (index.tsx 690)
handleViewSavedArticle(article) ==
  /\ LibraryShown
  /\ analysisResult' = article.analysisResult
  /\ fileName' = article.fileName
  /\ isCurrentArticleSaved' = TRUE
  /\ currentView' = "summary"
  /\ pendingFile' = nullString
  /\ appState' = "analysis"
  /\ UNCHANGED <<isLoading, error, library, apiKeySelected, storedKey, inFlight>>
  /\ Rerender(quizProgress)
  /\ UNCHANGED labVars

\* setCurrentView of the three tabs (index.tsx 697)
setCurrentView(view) ==
  /\ ResultShown(apiKeySelected, appState, isLoading, error, analysisResult)
  /\ currentView' = view
  /\ UNCHANGED <<isLoading, error, analysisResult, fileName, appState, library,
                 isCurrentArticleSaved, apiKeySelected, pendingFile, storedKey,
                 inFlight>>
  /\ Rerender(quizProgress)
  /\ UNCHANGED labVars

\* handleFileUpload (index.tsx 644-652): FileUpload is the last branch of
\* renderAnalysisView
handleFileUpload(file) ==
  /\ AnalysisShown /\ ~isLoading /\ error = nullString /\ analysisResult = 0
  /\ pendingFile = nullString
  /\ error' = nullString
  /\ analysisResult' = 0
  /\ isCurrentArticleSaved' = FALSE
  /\ fileName' = file
  /\ pendingFile' = file
  /\ appState' = "analysis"
  /\ UNCHANGED <<isLoading, currentView, library, apiKeySelected, storedKey,
                 inFlight>>
  /\ Rerender(quizProgress)
  /\ UNCHANGED labVars

\* handleStartAnalysis up to its first await (index.tsx 654-663)
handleStartAnalysis ==
  /\ AnalysisShown /\ ~isLoading /\ error = nullString /\ analysisResult = 0
  /\ pendingFile # nullString
  /\ isLoading' = TRUE
  /\ error' = nullString
  /\ pendingFile' = nullString
  /\ inFlight' = inFlight + 1
  /\ UNCHANGED <<analysisResult, currentView, fileName, appState, library,
                 isCurrentArticleSaved, apiKeySelected, storedKey>>
  /\ Rerender(quizProgress)
  /\ UNCHANGED labVars

\* handleStartAnalysis resumed with the AI result (index.tsx 665-667, 682-684)
AnalysisSucceeds(result) ==
  /\ inFlight > 0
  /\ inFlight' = inFlight - 1
  /\ analysisResult' = result
  /\ currentView' = "summary"
  /\ isLoading' = FALSE
  /\ UNCHANGED <<error, fileName, appState, library, isCurrentArticleSaved,
                 apiKeySelected, pendingFile, storedKey>>
  /\ Rerender(quizProgress)
  /\ UNCHANGED labVars

\* The messages handleStartAnalysis can catch: generateMedicalAnalysis
\* without a key (index.tsx 143-146), its two rewrapped failures
\* (index.tsx 214-220) and the empty extracted text (index.tsx 664).
ErrorMessages ==
  { "API Key not found. Please select or enter an API Key to continue.",
    "The provided API Key is not valid. Please check your key.",
    "Failed to generate analysis from the AI model.",
    "Could not extract text from PDF." }

\* errorMessage.includes("API Key not found") || errorMessage.includes("API key not valid")
\* (index.tsx 671), decided for each message of ErrorMessages
IsKeyMessage(message) ==
  message = "API Key not found. Please select or enter an API Key to continue."

\* handleStartAnalysis resumed in its catch (index.tsx 668-684)
AnalysisFails(message) ==
  /\ inFlight > 0
  /\ inFlight' = inFlight - 1
  /\ IF IsKeyMessage(message)
     THEN /\ storedKey' = FALSE
          /\ error' = "There was an issue with the API Key"
          /\ apiKeySelected' = FALSE
          /\ appState' = "home"
     ELSE /\ error' = "Failed to process document"
          /\ UNCHANGED <<storedKey, apiKeySelected, appState>>
  /\ isLoading' = FALSE
  /\ UNCHANGED <<analysisResult, currentView, fileName, library,
                 isCurrentArticleSaved, pendingFile>>
  /\ Rerender(quizProgress)
  /\ UNCHANGED labVars

\* -------------------------------------------------------------- QuizView

\* The three render branches (QuizView.tsx 288, 388, 443).
ConfiguringShown == QuizViewRendered /\ ~quizStarted

FinishedShown == QuizViewRendered /\ quizStarted /\ quizFinished

QuestionShown == QuizViewRendered /\ quizStarted /\ ~quizFinished

\* The two panels of the configuring branch (QuizView.tsx 293-383).
ResumePanelShown == ConfiguringShown /\ savedProgress # nullObject

SetupPanelShown == ConfiguringShown /\ savedProgress = nullObject

quizData == QuizOf(analysisResult)

allTopics == AllTopics(quizData.questions)

filteredQuestions == Filtered(quizData.questions, selectedTopics)

maxQuestionsAvailable == Len(filteredQuestions)

minQuestions == MinOf(maxQuestionsAvailable)

maxQuestions == MaxQuestionsOf(maxQuestionsAvailable)

\* prev.includes(topic) ? prev.filter(t => t !== topic) : [...prev, topic]
Toggle(prev, topic) ==
  IF topic \in Range(prev)
  THEN SelectSeq(prev, LAMBDA t : t # topic)
  ELSE Append(prev, topic)

\* What a QuizView handler leaves alone outside the component.
QuizFrame == UNCHANGED <<appVars, fcVars, labVars, mountFound>>

\* handleTopicToggle (QuizView.tsx 106-112) and the clamping effect
handleTopicToggle(topic) ==
  /\ SetupPanelShown
  /\ selectedTopics' = Toggle(selectedTopics, topic)
  /\ numQuestions' = QuizClamp(numQuestions, analysisResult, selectedTopics')
  /\ UNCHANGED <<quizStarted, activeQuestions, currentQuestionIndex, score,
                 selectedAnswerIndex, isAnswered, showExplanation, quizFinished,
                 userAnswers, savedProgress, timers, quizProgress>>
  /\ QuizFrame

\* handleSelectAllTopics (QuizView.tsx 114-116) and the clamping effect
handleSelectAllTopics ==
  /\ SetupPanelShown
  /\ selectedTopics' = allTopics
  /\ numQuestions' = QuizClamp(numQuestions, analysisResult, selectedTopics')
  /\ UNCHANGED <<quizStarted, activeQuestions, currentQuestionIndex, score,
                 selectedAnswerIndex, isAnswered, showExplanation, quizFinished,
                 userAnswers, savedProgress, timers, quizProgress>>
  /\ QuizFrame

\* handleDeselectAllTopics (QuizView.tsx 118-120) and the clamping effect
handleDeselectAllTopics ==
  /\ SetupPanelShown
  /\ selectedTopics' = <<>>
  /\ numQuestions' = QuizClamp(numQuestions, analysisResult, selectedTopics')
  /\ UNCHANGED <<quizStarted, activeQuestions, currentQuestionIndex, score,
                 selectedAnswerIndex, isAnswered, showExplanation, quizFinished,
                 userAnswers, savedProgress, timers, quizProgress>>
  /\ QuizFrame

\* The range input's onChange (QuizView.tsx 347-356): a value between its
\* min and max, unless disabled; then the clamping effect
setNumQuestions(value) ==
  /\ SetupPanelShown
  /\ ~(maxQuestionsAvailable < minQuestions \/ maxQuestionsAvailable = 0)
  /\ value \in minQuestions..maxQuestions
  /\ numQuestions' = QuizClamp(value, analysisResult, selectedTopics)
  /\ UNCHANGED <<quizStarted, activeQuestions, currentQuestionIndex, score,
                 selectedAnswerIndex, isAnswered, showExplanation, quizFinished,
                 userAnswers, savedProgress, selectedTopics, timers, quizProgress>>
  /\ QuizFrame

\* An assignment a[i] = a[j] in place of the swap.
SwapCopying(a, i, j) ==
  [k \in 1..Len(a) |-> IF k = i + 1 THEN a[j + 1] ELSE a[k]]

\* [a[i], a[j]] = [a[j], a[i]] on 0-based i, j
Swap(a, i, j) ==
  [k \in 1..Len(a) |-> IF k = i + 1 THEN a[j + 1] ELSE IF k = j + 1 THEN a[i + 1] ELSE a[k]]

\* The values Math.floor(Math.random() * (i + 1)) can take for each i of the
\* loop over a pool of n: draws[i] in 0..i for i in 1..n-1.
DrawsFor(n) == {d \in [1..(n - 1) -> 0..(n - 1)] : \A i \in 1..(n - 1) : d[i] <= i}

\* The loop stopping before its last swap (i > 1 for i > 0).
RECURSIVE FisherYatesFromStoppingEarly(_, _, _)
FisherYatesFromStoppingEarly(shuffled, i, draws) ==
  IF i > 1
  THEN FisherYatesFromStoppingEarly(Swap(shuffled, i, draws[i]), i - 1, draws)
  ELSE shuffled

\* The Fisher-Yates loop from i downwards (QuizView.tsx 127-130)
RECURSIVE FisherYatesFrom(_, _, _)
FisherYatesFrom(shuffled, i, draws) ==
  IF i > 0
  THEN FisherYatesFrom(Swap(shuffled, i, draws[i]), i - 1, draws)
  ELSE shuffled

\* const shuffled = [...filteredQuestions]; the loop (QuizView.tsx 126-130)
FisherYates(pool, draws) == FisherYatesFrom(pool, Len(pool) - 1, draws)

\* handleStartNewQuiz (QuizView.tsx 122-145): the resume panel's button is
\* always enabled, the setup panel's needs a topic and a non-zero count
handleStartNewQuiz ==
  /\ \/ ResumePanelShown
     \/ /\ SetupPanelShown
        /\ ~(maxQuestionsAvailable < minQuestions)
        /\ ~(Len(selectedTopics) = 0 \/ numQuestions = 0)
  /\ \E draws \in DrawsFor(Len(filteredQuestions)) :
       activeQuestions' = Slice(FisherYates(filteredQuestions, draws), numQuestions)
  /\ quizProgress' = absent
  /\ currentQuestionIndex' = 0
  /\ score' = 0
  /\ selectedAnswerIndex' = null
  /\ isAnswered' = FALSE
  /\ showExplanation' = FALSE
  /\ quizFinished' = FALSE
  /\ userAnswers' = NullArray(numQuestions)
  /\ quizStarted' = TRUE
  /\ savedProgress' = nullObject
  /\ UNCHANGED <<numQuestions, selectedTopics, timers>>
  /\ QuizFrame

\* handleResumeQuiz (QuizView.tsx 147-165) and the clamping effect that
\* follows setNumQuestions
handleResumeQuiz ==
  /\ ResumePanelShown
  /\ activeQuestions' = savedProgress.activeQuestions
  /\ currentQuestionIndex' = savedProgress.currentQuestionIndex
  /\ score' = savedProgress.score
  /\ userAnswers' = savedProgress.userAnswers
  /\ numQuestions' = QuizClamp(savedProgress.numQuestions, analysisResult, selectedTopics)
  /\ LET at == savedProgress.currentQuestionIndex + 1
         answers == savedProgress.userAnswers
     IN IF at \in 1..Len(answers) /\ answers[at] # null
        THEN /\ selectedAnswerIndex' = answers[at]
             /\ isAnswered' = TRUE
             /\ showExplanation' = TRUE
        ELSE UNCHANGED <<selectedAnswerIndex, isAnswered, showExplanation>>
  /\ quizStarted' = TRUE
  /\ savedProgress' = nullObject
  /\ UNCHANGED <<quizFinished, selectedTopics, timers, quizProgress>>
  /\ QuizFrame

currentQuestion == activeQuestions[currentQuestionIndex + 1]

\* newScore (QuizView.tsx 175-180)
NewScore(index) ==
  IF index = currentQuestion.correctAnswerIndex
  THEN score + quizData.settings.positiveScore
  ELSE score + quizData.settings.negativeScore

\* newAnswers written at the first question whatever the current one.
NewAnswersAtFirst(index) == [userAnswers EXCEPT ![1] = index]

\* newAnswers (QuizView.tsx 183-184)
NewAnswers(index) == [userAnswers EXCEPT ![currentQuestionIndex + 1] = index]

\* stateToSave built from the score before the answer.
StateToSaveOldScore(index) ==
  [quizTitle |-> quizData.quizTitle,
   activeQuestions |-> activeQuestions,
   currentQuestionIndex |-> currentQuestionIndex,
   score |-> score,
   userAnswers |-> NewAnswers(index),
   numQuestions |-> numQuestions]

\* stateToSave (QuizView.tsx 188-195)
StateToSave(index) ==
  [quizTitle |-> quizData.quizTitle,
   activeQuestions |-> activeQuestions,
   currentQuestionIndex |-> currentQuestionIndex,
   score |-> NewScore(index),
   userAnswers |-> NewAnswers(index),
   numQuestions |-> numQuestions]

\* handleAnswerSelect (QuizView.tsx 169-202). setItem either stores the
\* item or throws (quota): the state updates queued before it are still
\* applied, the setTimeout after it is never reached.
handleAnswerSelect(index, stored) ==
  /\ QuestionShown
  /\ IF isAnswered
     THEN UNCHANGED <<quizVars, quizProgress>>
     ELSE /\ isAnswered' = TRUE
          /\ selectedAnswerIndex' = index
          /\ score' = NewScore(index)
          /\ userAnswers' = NewAnswers(index)
          /\ IF stored
             THEN /\ quizProgress' = JSONstringify(StateToSave(index))
                  /\ timers' = timers + 1
             ELSE UNCHANGED <<quizProgress, timers>>
          /\ UNCHANGED <<quizStarted, numQuestions, activeQuestions,
                         currentQuestionIndex, showExplanation, quizFinished,
                         savedProgress, selectedTopics>>
  /\ QuizFrame

\* The setTimeout callback (QuizView.tsx 199-201)
revealExplanation ==
  /\ QuizViewRendered
  /\ timers > 0
  /\ timers' = timers - 1
  /\ showExplanation' = TRUE
  /\ UNCHANGED <<quizStarted, numQuestions, activeQuestions, currentQuestionIndex,
                 score, selectedAnswerIndex, isAnswered, quizFinished, userAnswers,
                 savedProgress, selectedTopics, quizProgress>>
  /\ QuizFrame

\* handleNextQuestion finishing one question early.
handleNextQuestionOneEarly ==
  /\ QuestionShown
  /\ showExplanation
  /\ IF currentQuestionIndex < Len(activeQuestions) - 2
     THEN /\ currentQuestionIndex' = currentQuestionIndex + 1
          /\ isAnswered' = FALSE
          /\ selectedAnswerIndex' = null
          /\ showExplanation' = FALSE
          /\ UNCHANGED <<quizFinished, quizProgress>>
     ELSE /\ quizFinished' = TRUE
          /\ quizProgress' = absent
          /\ UNCHANGED <<currentQuestionIndex, isAnswered, selectedAnswerIndex,
                         showExplanation>>
  /\ UNCHANGED <<quizStarted, numQuestions, activeQuestions, score, userAnswers,
                 savedProgress, selectedTopics, timers>>
  /\ QuizFrame

\* handleNextQuestion without the removeItem of its last-question branch.
handleNextQuestionKeepingSnapshot ==
  /\ QuestionShown
  /\ showExplanation
  /\ IF currentQuestionIndex < Len(activeQuestions) - 1
     THEN /\ currentQuestionIndex' = currentQuestionIndex + 1
          /\ isAnswered' = FALSE
          /\ selectedAnswerIndex' = null
          /\ showExplanation' = FALSE
          /\ UNCHANGED quizFinished
     ELSE /\ quizFinished' = TRUE
          /\ UNCHANGED <<currentQuestionIndex, isAnswered, selectedAnswerIndex,
                         showExplanation>>
  /\ UNCHANGED <<quizStarted, numQuestions, activeQuestions, score, userAnswers,
                 savedProgress, selectedTopics, timers, quizProgress>>
  /\ QuizFrame

\* handleNextQuestion with its button rendered as soon as the question is
\* answered, before the explanation.
handleNextQuestionBeforeReveal ==
  /\ QuestionShown
  /\ isAnswered
  /\ IF currentQuestionIndex < Len(activeQuestions) - 1
     THEN /\ currentQuestionIndex' = currentQuestionIndex + 1
          /\ isAnswered' = FALSE
          /\ selectedAnswerIndex' = null
          /\ showExplanation' = FALSE
          /\ UNCHANGED <<quizFinished, quizProgress>>
     ELSE /\ quizFinished' = TRUE
          /\ quizProgress' = absent
          /\ UNCHANGED <<currentQuestionIndex, isAnswered, selectedAnswerIndex,
                         showExplanation>>
  /\ UNCHANGED <<quizStarted, numQuestions, activeQuestions, score, userAnswers,
                 savedProgress, selectedTopics, timers>>
  /\ QuizFrame

\* handleNextQuestion (QuizView.tsx 204-214): its button is rendered with
\* the explanation
handleNextQuestion ==
  /\ QuestionShown
  /\ showExplanation
  /\ IF currentQuestionIndex < Len(activeQuestions) - 1
     THEN /\ currentQuestionIndex' = currentQuestionIndex + 1
          /\ isAnswered' = FALSE
          /\ selectedAnswerIndex' = null
          /\ showExplanation' = FALSE
          /\ UNCHANGED <<quizFinished, quizProgress>>
     ELSE /\ quizFinished' = TRUE
          /\ quizProgress' = absent
          /\ UNCHANGED <<currentQuestionIndex, isAnswered, selectedAnswerIndex,
                         showExplanation>>
  /\ UNCHANGED <<quizStarted, numQuestions, activeQuestions, score, userAnswers,
                 savedProgress, selectedTopics, timers>>
  /\ QuizFrame

\* handleRestartQuiz (QuizView.tsx 216-221) and the clamping effect
handleRestartQuiz ==
  /\ FinishedShown
  /\ quizProgress' = absent
  /\ quizStarted' = FALSE
  /\ savedProgress' = nullObject
  /\ selectedTopics' = allTopics
  /\ numQuestions' = QuizClamp(numQuestions, analysisResult, selectedTopics')
  /\ UNCHANGED <<activeQuestions, currentQuestionIndex, score, selectedAnswerIndex,
                 isAnswered, showExplanation, quizFinished, userAnswers, timers>>
  /\ QuizFrame

\* --------------------------------------------------------- FlashcardsView

FlashSetupShown == FlashcardsViewRendered /\ ~deckStarted

DeckShown == FlashcardsViewRendered /\ deckStarted

flashcards == Analyses[analysisResult].flashcards

fcAllTopics == AllTopics(flashcards)

filteredFlashcards == Filtered(flashcards, fcSelectedTopics)

maxFlashcardsAvailable == Len(filteredFlashcards)

minFlashcards == MinOf(maxFlashcardsAvailable)

maxFlashcards == MaxFlashcardsOf(maxFlashcardsAvailable)

FlashFrame == UNCHANGED <<appVars, quizVars, quizProgress, labVars>>

\* handleTopicToggle (FileUpload.tsx 147-153) and the clamping effect
fcHandleTopicToggle(topic) ==
  /\ FlashSetupShown
  /\ fcSelectedTopics' = Toggle(fcSelectedTopics, topic)
  /\ numFlashcards' = FlashClamp(numFlashcards, analysisResult, fcSelectedTopics')
  /\ UNCHANGED <<deckStarted, activeFlashcards, currentIndex, isFlipped>>
  /\ FlashFrame

\* handleSelectAllTopics (FileUpload.tsx 155) and the clamping effect
fcHandleSelectAllTopics ==
  /\ FlashSetupShown
  /\ fcSelectedTopics' = fcAllTopics
  /\ numFlashcards' = FlashClamp(numFlashcards, analysisResult, fcSelectedTopics')
  /\ UNCHANGED <<deckStarted, activeFlashcards, currentIndex, isFlipped>>
  /\ FlashFrame

\* handleDeselectAllTopics (FileUpload.tsx 156) and the clamping effect
fcHandleDeselectAllTopics ==
  /\ FlashSetupShown
  /\ fcSelectedTopics' = <<>>
  /\ numFlashcards' = FlashClamp(numFlashcards, analysisResult, fcSelectedTopics')
  /\ UNCHANGED <<deckStarted, activeFlashcards, currentIndex, isFlipped>>
  /\ FlashFrame

\* The range input's onChange (FileUpload.tsx 273-282) and the clamping effect
setNumFlashcards(value) ==
  /\ FlashSetupShown
  /\ ~(maxFlashcardsAvailable < minFlashcards \/ maxFlashcardsAvailable = 0)
  /\ value \in minFlashcards..maxFlashcards
  /\ numFlashcards' = FlashClamp(value, analysisResult, fcSelectedTopics)
  /\ UNCHANGED <<deckStarted, activeFlashcards, fcSelectedTopics, currentIndex,
                 isFlipped>>
  /\ FlashFrame

\* The places the engine's insertion of element k (2..n) into the sorted
\* prefix can end at, one per outcome of the comparator's random answers.
PicksFor(n) == {p \in [2..n -> 1..n] : \A k \in 2..n : p[k] <= k}

InsertAt(s, at, x) == SubSeq(s, 1, at - 1) \o <<x>> \o SubSeq(s, at, Len(s))

\* Array.prototype.sort with the comparator () => 0.5 - Math.random()
\* (FileUpload.tsx 159): the engine sorts a short array by insertion, and a
\* comparator that answers at random lets each element stop anywhere.
RECURSIVE ComparatorSortFrom(_, _, _, _)
ComparatorSortFrom(sorted, items, k, picks) ==
  IF k > Len(items) THEN sorted
  ELSE ComparatorSortFrom(InsertAt(sorted, picks[k], items[k]), items, k + 1, picks)

ComparatorSort(items, picks) ==
  IF items = <<>> THEN <<>> ELSE ComparatorSortFrom(<<items[1]>>, items, 2, picks)

\* handleStartDeck (FileUpload.tsx 158-164)
handleStartDeck ==
  /\ FlashSetupShown
  /\ ~(maxFlashcardsAvailable < minFlashcards)
  /\ ~(Len(fcSelectedTopics) = 0 \/ numFlashcards = 0)
  /\ \E picks \in PicksFor(Len(filteredFlashcards)) :
       activeFlashcards' = Slice(ComparatorSort(filteredFlashcards, picks), numFlashcards)
  /\ currentIndex' = 0
  /\ isFlipped' = FALSE
  /\ deckStarted' = TRUE
  /\ UNCHANGED <<numFlashcards, fcSelectedTopics>>
  /\ FlashFrame

\* handleNext (FileUpload.tsx 175-179), by button or ArrowRight, and the
\* effect that resets the flip when the card changes (FileUpload.tsx 171-173)
handleNext ==
  /\ DeckShown
  /\ IF currentIndex < Len(activeFlashcards) - 1
     THEN currentIndex' = currentIndex + 1 /\ isFlipped' = FALSE
     ELSE UNCHANGED <<currentIndex, isFlipped>>
  /\ UNCHANGED <<deckStarted, numFlashcards, activeFlashcards, fcSelectedTopics>>
  /\ FlashFrame

\* handlePrev (FileUpload.tsx 181-185), by button or ArrowLeft
handlePrev ==
  /\ DeckShown
  /\ IF currentIndex > 0
     THEN currentIndex' = currentIndex - 1 /\ isFlipped' = FALSE
     ELSE UNCHANGED <<currentIndex, isFlipped>>
  /\ UNCHANGED <<deckStarted, numFlashcards, activeFlashcards, fcSelectedTopics>>
  /\ FlashFrame

\* setIsFlipped(f => !f): a click on the card or the space bar
\* (FileUpload.tsx 193-196)
flipCard ==
  /\ DeckShown
  /\ isFlipped' = ~isFlipped
  /\ UNCHANGED <<deckStarted, numFlashcards, activeFlashcards, fcSelectedTopics,
                 currentIndex>>
  /\ FlashFrame

\* handleRestart (FileUpload.tsx 166-168)
handleRestart ==
  /\ DeckShown
  /\ deckStarted' = FALSE
  /\ UNCHANGED <<numFlashcards, activeFlashcards, fcSelectedTopics, currentIndex,
                 isFlipped>>
  /\ FlashFrame

\* ------------------------------------------------------ the application

\* Outside SpecShuffle the shuffle on its own has no pool and no draws.
ShuffleIdle ==
  /\ poolSize = 0
  /\ drawsA = <<>>
  /\ drawsB = <<>>
  /\ shuffledA = <<>>
  /\ shuffledB = <<>>

\* Outside SpecFinished the finished screen on its own renders nothing.
FinishedIdle ==
  /\ deckSize = 0
  /\ correctCount = 0
  /\ percentageShown = null
  /\ passedShown = FALSE

\* The latest savedAt and the largest id of a list, 0 for the empty list.
RECURSIVE NewestSavedAt(_)
NewestSavedAt(list) ==
  IF list = <<>> THEN 0 ELSE Max(Head(list).savedAt, NewestSavedAt(Tail(list)))

RECURSIVE LargestId(_)
LargestId(list) ==
  IF list = <<>> THEN 0 ELSE Max(Head(list).id, LargestId(Tail(list)))

\* No tab inside a call of the library service.
TabsIdle ==
  [t \in {1, 2} |-> [pc |-> "idle", op |-> nullObject, read |-> <<>>, raced |-> FALSE]]

\* The library key holding `list`, written by this application: the clock
\* at or past every savedAt, every id used, no save to look back on, no
\* second tab at work.
LibraryHolds(list) ==
  /\ tabs = TabsIdle
  /\ clock = NewestSavedAt(list)
  /\ nextId = LargestId(list) + 1
  /\ lastSaved = nullObject
  /\ undone = FALSE

\* Where the library is not under study its key holds what the library
\* state was loaded from.
LibraryAtRest ==
  /\ libraryStore = JSONstringify(InitialLibrary)
  /\ LibraryHolds(InitialLibrary)

\* No export made, no request fetched, the loader not run.
SideIdle == csv = nullObject /\ worker = nullObject /\ loader = nullObject

LabIdle == ShuffleIdle /\ FinishedIdle /\ LibraryAtRest /\ SideIdle

\* The state after App is constructed and its mount effects have run
\* (index.tsx 555-620) outside AI Studio: the key screen unless the session
\* holds a key; the progress key holds nothing or an unreadable item.
InitApp(lib) ==
  /\ isLoading = FALSE
  /\ error = nullString
  /\ analysisResult = 0
  /\ currentView = "summary"
  /\ fileName = ""
  /\ appState = "home"
  /\ library = lib
  /\ isCurrentArticleSaved = FALSE
  /\ storedKey \in BOOLEAN
  /\ apiKeySelected = storedKey
  /\ pendingFile = nullString
  /\ inFlight = 0

InitNoViews ==
  /\ quizStarted = FALSE
  /\ activeQuestions = <<>>
  /\ currentQuestionIndex = 0
  /\ score = 0
  /\ selectedAnswerIndex = null
  /\ isAnswered = FALSE
  /\ showExplanation = FALSE
  /\ quizFinished = FALSE
  /\ userAnswers = <<>>
  /\ selectedTopics = <<>>
  /\ numQuestions = InitialCount
  /\ timers = 0
  /\ savedProgress = nullObject
  /\ mountFound = "unmounted"
  /\ deckStarted = FALSE
  /\ activeFlashcards = <<>>
  /\ fcSelectedTopics = <<>>
  /\ numFlashcards = InitialCount
  /\ currentIndex = 0
  /\ isFlipped = FALSE

Init ==
  /\ InitApp(InitialLibrary)
  /\ quizProgress \in {absent, corrupt}
  /\ InitNoViews
  /\ LabIdle

AppNext ==
  \/ handleSaveManualKey
  \/ handleViewLibrary
  \/ handleResetToHome
  \/ handleStartNewAnalysis
  \/ \E k \in 1..Len(library) : handleViewSavedArticle(library[k])
  \/ \E view \in {"summary", "quiz", "flashcards"} : setCurrentView(view)
  \/ \E file \in UploadFiles : handleFileUpload(file)
  \/ handleStartAnalysis
  \/ \E result \in SmallResults : AnalysisSucceeds(result)
  \/ \E message \in ErrorMessages : AnalysisFails(message)

QuizConfigNext ==
  \/ QuizViewRendered /\ \E topic \in Range(allTopics) : handleTopicToggle(topic)
  \/ handleSelectAllTopics
  \/ handleDeselectAllTopics
  \/ QuizViewRendered /\ \E value \in 0..Len(quizData.questions) : setNumQuestions(value)

QuizNext ==
  \/ QuizConfigNext
  \/ handleStartNewQuiz
  \/ handleResumeQuiz
  \/ \E index \in 0..(NumOptions - 1), stored \in BOOLEAN : handleAnswerSelect(index, stored)
  \/ revealExplanation
  \/ handleNextQuestion
  \/ handleRestartQuiz

FlashConfigNext ==
  \/ FlashcardsViewRendered /\ \E topic \in Range(fcAllTopics) : fcHandleTopicToggle(topic)
  \/ fcHandleSelectAllTopics
  \/ fcHandleDeselectAllTopics
  \/ FlashcardsViewRendered /\ \E value \in 0..Len(flashcards) : setNumFlashcards(value)

FlashNext ==
  \/ FlashConfigNext
  \/ handleStartDeck
  \/ handleNext
  \/ handlePrev
  \/ flipCard
  \/ handleRestart

Next == AppNext \/ QuizNext \/ FlashNext

Spec == Init /\ [][Next]_vars

\* ------------------------------------------------------------ C1: the score

\* The sum, over the first n questions with a recorded answer, of
\* positiveScore for a correct answer and negativeScore for a wrong one.
RECURSIVE ScoreOfAnswers(_, _, _, _)
ScoreOfAnswers(answers, questions, settings, n) ==
  IF n = 0 THEN 0
  ELSE ScoreOfAnswers(answers, questions, settings, n - 1)
       + (IF answers[n] = null THEN 0
          ELSE IF answers[n] = questions[n].correctAnswerIndex
               THEN settings.positiveScore
               ELSE settings.negativeScore)

\* A quiz session exists: the view is mounted and a quiz was started.
InSession == QuizViewRendered /\ quizStarted

\* C1: in every state of a quiz session (after any sequence of start, answer,
\* next, unmount/remount and resume, and in the finished state) score is the
\* sum, over the questions with a recorded answer, of the loaded quiz's
\* positiveScore for a correct answer and negativeScore for a wrong one.
C1_ScoreIsSumOfAnswers ==
  InSession =>
    score = ScoreOfAnswers(userAnswers, activeQuestions, quizData.settings,
                           Len(userAnswers))

\* ------------------------------------- C2: a snapshot of another quiz title

\* A step that mounts QuizView while the progress key holds a readable
\* snapshot whose quizTitle is not the title of the quiz being loaded.
MountsOnOtherTitle ==
  /\ ~QuizViewRendered
  /\ QuizViewRendered'
  /\ quizProgress \notin {absent, corrupt}
  /\ JSONparse(quizProgress).quizTitle # QuizOf(analysisResult').quizTitle

\* C2: a mount that finds a snapshot of another quiz title never offers it
\* for resume and removes it from storage; in every state savedProgress is
\* null or carries the title of the loaded quiz.
C2_OtherTitleNeverOffered ==
  /\ [][MountsOnOtherTitle => savedProgress' = nullObject /\ quizProgress' = absent]_vars
  /\ [](savedProgress # nullObject =>
          QuizViewRendered /\ savedProgress.quizTitle = quizData.quizTitle)
  /\ [](QuizViewRendered /\ mountFound = "other title" /\ ~quizStarted =>
          savedProgress = nullObject /\ quizProgress = absent)

\* The view is mounted, its load effect met a snapshot of another title, and
\* nothing is offered or stored.
C2_Witness ==
  /\ QuizViewRendered
  /\ mountFound = "other title"
  /\ savedProgress = nullObject
  /\ quizProgress = absent

\* ------------------------------------------------------------- C3: resume

\* The snapshot under savedProgress records an answer for its current
\* question.
SnapshotAnswersCurrent ==
  LET at == savedProgress.currentQuestionIndex + 1
  IN /\ at \in 1..Len(savedProgress.userAnswers)
     /\ savedProgress.userAnswers[at] # null

\* C3: once the effects of a Resume have settled, activeQuestions,
\* currentQuestionIndex, score, userAnswers and numQuestions equal the
\* snapshot's values, for every snapshot the app has written (one of a
\* topic-filtered session included), and the current question is answered
\* with its explanation shown exactly when the snapshot records an answer at
\* currentQuestionIndex.
C3_ResumeRestoresVerbatim ==
  [][handleResumeQuiz =>
       /\ activeQuestions' = savedProgress.activeQuestions
       /\ currentQuestionIndex' = savedProgress.currentQuestionIndex
       /\ score' = savedProgress.score
       /\ userAnswers' = savedProgress.userAnswers
       /\ numQuestions' = savedProgress.numQuestions
       /\ (isAnswered' /\ showExplanation') = SnapshotAnswersCurrent]_vars

\* ------------------------------------------- C4: the snapshot of an answer

\* The snapshot of the session as it stands.
SessionSnapshot ==
  [quizTitle |-> quizData.quizTitle,
   activeQuestions |-> activeQuestions,
   currentQuestionIndex |-> currentQuestionIndex,
   score |-> score,
   userAnswers |-> userAnswers,
   numQuestions |-> numQuestions]

\* A step that accepts an answer and whose storage write succeeds.
AcceptsAnswer ==
  /\ QuestionShown
  /\ ~isAnswered
  /\ \E index \in 0..(NumOptions - 1) : handleAnswerSelect(index, TRUE)

\* C4: right after every accepted answer whose write succeeds, the progress
\* key holds a snapshot with the loaded quiz's title and the session's
\* activeQuestions, currentQuestionIndex, score and userAnswers as they are
\* after that answer; it stays so while the explanation timer is pending.
C4_SnapshotAfterAnswer ==
  /\ [][AcceptsAnswer =>
          /\ quizProgress' \notin {absent, corrupt}
          /\ JSONparse(quizProgress').quizTitle = quizData.quizTitle
          /\ JSONparse(quizProgress').activeQuestions = activeQuestions'
          /\ JSONparse(quizProgress').currentQuestionIndex = currentQuestionIndex'
          /\ JSONparse(quizProgress').score = score'
          /\ JSONparse(quizProgress').userAnswers = userAnswers']_vars
  /\ [](QuestionShown /\ isAnswered /\ timers > 0 =>
          quizProgress = JSONstringify(SessionSnapshot))

\* An answer to the second question was just accepted and stored.
C4_Witness ==
  /\ QuestionShown
  /\ isAnswered
  /\ timers > 0
  /\ currentQuestionIndex = 1
  /\ userAnswers[2] # null
  /\ quizProgress = JSONstringify(SessionSnapshot)

\* --------------------------------------------- C5: clearing the snapshot

\* A step of one of the handlers that end or replace the session.
ClearingStep ==
  \/ handleNextQuestion /\ currentQuestionIndex = Len(activeQuestions) - 1
  \/ handleRestartQuiz
  \/ handleStartNewQuiz
  \/ handleStartNewAnalysis
  \/ handleResetToHome

\* C5: the progress key is absent after Next on the last question,
\* handleRestartQuiz, handleStartNewQuiz, handleStartNewAnalysis and
\* handleResetToHome; no state shows the finished screen while a snapshot is
\* stored.
C5_SnapshotCleared ==
  /\ [][ClearingStep => quizProgress' = absent]_vars
  /\ [](FinishedShown => quizProgress = absent)

\* The finished screen after every question was answered and stored.
C5_Witness ==
  /\ FinishedShown
  /\ quizProgress = absent
  /\ Len(userAnswers) > 1
  /\ \A k \in 1..Len(userAnswers) : userAnswers[k] # null

\* ------------------------------------------------ C6: answering is one-shot

\* The answers the session holds: those of the mounted session, or those of
\* the stored snapshot a later Resume would restore.
RecordedAnswers ==
  IF InSession THEN userAnswers
  ELSE IF quizProgress \notin {absent, corrupt}
       THEN JSONparse(quizProgress).userAnswers
       ELSE <<>>

\* Once the current question is answered a further selection changes nothing.
AnswerIgnored ==
  \A index \in 0..(NumOptions - 1), stored \in BOOLEAN :
    handleAnswerSelect(index, stored) /\ isAnswered =>
      UNCHANGED <<score, userAnswers, selectedAnswerIndex, quizProgress>>

\* Within a mounted session the score moves only when the current question,
\* so far unanswered, gets its answer.
ScoreOnce ==
  InSession /\ InSession' /\ score' # score =>
    /\ userAnswers[currentQuestionIndex + 1] = null
    /\ userAnswers'[currentQuestionIndex + 1] # null
    /\ \A k \in DOMAIN userAnswers :
         k # currentQuestionIndex + 1 => userAnswers'[k] = userAnswers[k]

\* Unless a new quiz is started, an answer the session holds stays as it is.
AnswerKept ==
  ~handleStartNewQuiz =>
    \A k \in DOMAIN RecordedAnswers \cap DOMAIN RecordedAnswers' :
      RecordedAnswers[k] # null => RecordedAnswers'[k] = RecordedAnswers[k]

\* C6: answering is one-shot per question: a further selection on an answered
\* question leaves score, userAnswers, selectedAnswerIndex and the stored
\* snapshot unchanged; within one session, unmount and resume included, each
\* question index contributes to score at most once and a recorded answer
\* never changes.
C6_AnswerOneShot == [][AnswerIgnored /\ ScoreOnce /\ AnswerKept]_vars

\* ---------------------------------------------- C7: the phases of the quiz

Phase ==
  IF ~QuizViewRendered THEN "unmounted"
  ELSE IF ~quizStarted THEN "configuring"
  ELSE IF quizFinished THEN "finished"
  ELSE "in-progress"

\* in-progress is entered only from configuring, by Start New Quiz or Resume.
EntersInProgress ==
  Phase' = "in-progress" /\ Phase # "in-progress" =>
    Phase = "configuring" /\ (handleStartNewQuiz \/ handleResumeQuiz)

\* finished is entered only by Next on the last active question.
EntersFinished ==
  Phase' = "finished" /\ Phase # "finished" =>
    /\ Phase = "in-progress"
    /\ currentQuestionIndex = Len(activeQuestions) - 1
    /\ handleNextQuestion

\* Next on an earlier question moves on by one and clears the flags.
NextAdvances ==
  handleNextQuestion /\ currentQuestionIndex < Len(activeQuestions) - 1 =>
    /\ currentQuestionIndex' = currentQuestionIndex + 1
    /\ isAnswered' = FALSE
    /\ selectedAnswerIndex' = null
    /\ showExplanation' = FALSE
    /\ Phase' = "in-progress"

\* C7 as stated: the quiz moves only configuring -> in-progress -> finished;
\* in-progress is entered only from configuring by Start New Quiz or Resume;
\* finished is entered only by Next on the last active question; Next on an
\* earlier question increases currentQuestionIndex by one and clears the
\* answered, selected and explanation flags; finished is left only by
\* Restart, which returns to configuring.
C7_PhasesAsStated ==
  [][/\ EntersInProgress
     /\ EntersFinished
     /\ NextAdvances
     /\ (Phase = "unmounted" => Phase' \in {"unmounted", "configuring"})
     /\ (Phase = "configuring" =>
           Phase' \in {"configuring", "in-progress", "unmounted"})
     /\ (Phase = "in-progress" => Phase' \in {"in-progress", "finished"})
     /\ (Phase = "finished" /\ Phase' # "finished" =>
           handleRestartQuiz /\ Phase' = "configuring")]_vars

\* C7 amended: as stated while the view stays mounted; besides, in-progress
\* and finished are also left when the view is unmounted (another tab, the
\* library, home, a new analysis), and a view mounted later starts in
\* configuring.
C7_PhasesWithUnmount ==
  [][/\ EntersInProgress
     /\ EntersFinished
     /\ NextAdvances
     /\ (Phase = "unmounted" => Phase' \in {"unmounted", "configuring"})
     /\ (Phase = "configuring" =>
           Phase' \in {"configuring", "in-progress", "unmounted"})
     /\ (Phase = "in-progress" =>
           Phase' \in {"in-progress", "finished", "unmounted"})
     /\ (Phase = "finished" /\ Phase' \notin {"finished", "unmounted"} =>
           handleRestartQuiz /\ Phase' = "configuring")]_vars

\* Configuring again after Restart: the flag of the finished quiz and its
\* fully answered deck are still in the component.
C7_Witness ==
  /\ Phase = "configuring"
  /\ quizFinished
  /\ Len(activeQuestions) > 1
  /\ currentQuestionIndex = Len(activeQuestions) - 1
  /\ \A k \in 1..Len(userAnswers) : userAnswers[k] # null

\* ------------------------------------------ a result opened on one of its tabs

\* The state with result r on screen once its Quiz or Flashcards tab was
\* clicked (index.tsx 697), nothing being stored under the progress key.
InitOnTab(r) ==
  /\ isLoading = FALSE
  /\ error = nullString
  /\ analysisResult = r
  /\ currentView \in {"quiz", "flashcards"}
  /\ fileName = "new.pdf"
  /\ appState = "analysis"
  /\ library = InitialLibrary
  /\ isCurrentArticleSaved = FALSE
  /\ storedKey = TRUE
  /\ apiKeySelected = TRUE
  /\ pendingFile = nullString
  /\ inFlight = 0
  /\ quizProgress = absent
  /\ quizStarted = FALSE
  /\ activeQuestions = <<>>
  /\ currentQuestionIndex = 0
  /\ score = 0
  /\ selectedAnswerIndex = null
  /\ isAnswered = FALSE
  /\ showExplanation = FALSE
  /\ quizFinished = FALSE
  /\ userAnswers = <<>>
  /\ timers = 0
  /\ savedProgress = nullObject
  /\ deckStarted = FALSE
  /\ activeFlashcards = <<>>
  /\ currentIndex = 0
  /\ isFlipped = FALSE
  /\ IF currentView = "quiz"
     THEN /\ selectedTopics = AllTopics(QuizOf(r).questions)
          /\ numQuestions = QuizClamp(InitialCount, r, selectedTopics)
          /\ mountFound = "nothing"
          /\ fcSelectedTopics = <<>>
          /\ numFlashcards = InitialCount
     ELSE /\ selectedTopics = <<>>
          /\ numQuestions = InitialCount
          /\ mountFound = "unmounted"
          /\ fcSelectedTopics = AllTopics(Analyses[r].flashcards)
          /\ numFlashcards = FlashClamp(InitialCount, r, fcSelectedTopics)
  /\ LabIdle

\* ---------------------------------------------- C8: the requested count

\* The document with more items than the quiz ceiling.
LargeResult == 5

InitClamp == InitOnTab(LargeResult)

\* The setup panels of both views and the tabs between them.
NextClamp ==
  \/ QuizConfigNext
  \/ FlashConfigNext
  \/ \E view \in {"summary", "quiz", "flashcards"} : setCurrentView(view)

SpecClamp == InitClamp /\ [][NextClamp]_vars

\* The number of items of a pool whose topic is selected.
PoolSize(items, topics) ==
  Cardinality({k \in 1..Len(items) : \E t \in 1..Len(topics) : topics[t] = items[k].topic})

\* count is 0 for an empty pool and lies between min(5, n) and ceiling.
CountWithin(count, n, ceiling) ==
  /\ n = 0 => count = 0
  /\ Min(5, n) <= count
  /\ count <= ceiling
  /\ ceiling <= n

\* C8: for every selection of topics, after any sequence of toggles,
\* select-all, deselect-all and slider changes, the settled count satisfies
\* floor <= count <= ceiling with floor = min(5, n), n the size of the
\* filtered pool, ceiling = min(20, n) for the quiz and n for flashcards; the
\* count is 0 when n = 0, and the ceiling the view computes is that ceiling
\* and never exceeds n.
C8_CountWithinBounds ==
  /\ QuizViewRendered =>
       LET n == PoolSize(quizData.questions, selectedTopics)
       IN /\ CountWithin(numQuestions, n, Min(20, n))
          /\ maxQuestions = Min(20, n)
          /\ minQuestions = Min(5, n)
  /\ FlashcardsViewRendered =>
       LET n == PoolSize(flashcards, fcSelectedTopics)
       IN /\ CountWithin(numFlashcards, n, n)
          /\ maxFlashcards = n
          /\ minFlashcards = Min(5, n)

\* The quiz count at its ceiling of twenty with all 22 questions selected.
C8_Witness ==
  /\ QuizViewRendered
  /\ PoolSize(quizData.questions, selectedTopics) = 22
  /\ numQuestions = 20

\* ------------------------------------------------- C9: the drawn active list

\* The document with six items per pool, five of one topic.
MediumResult == 4

InitDeck == InitOnTab(MediumResult)

\* Setting up and starting a quiz or a deck, over and over.
NextDeck ==
  \/ QuizConfigNext
  \/ FlashConfigNext
  \/ handleStartNewQuiz
  \/ handleStartDeck
  \/ handleRestart
  \/ \E view \in {"summary", "quiz", "flashcards"} : setCurrentView(view)

SpecDeck == InitDeck /\ [][NextDeck]_vars

\* active has count entries, all of them items of pool with a selected
\* topic, none of them twice.
PrefixOfPermutation(active, pool, count, topics) ==
  /\ Len(active) = count
  /\ \A k \in 1..Len(active) :
       /\ \E p \in 1..Len(pool) : pool[p] = active[k]
       /\ \E t \in 1..Len(topics) : topics[t] = active[k].topic
  /\ \A k, m \in 1..Len(active) : k # m => active[k].id # active[m].id

\* C9: for every outcome of the random draws, handleStartNewQuiz and
\* handleStartDeck yield an active list that is a prefix of a permutation of
\* the filtered pool: exactly the requested count of entries, no pool item
\* twice, every entry's topic one of the selected topics.
C9_ActiveListDrawn ==
  /\ InSession =>
       PrefixOfPermutation(activeQuestions, quizData.questions, numQuestions,
                           selectedTopics)
  /\ DeckShown =>
       PrefixOfPermutation(activeFlashcards, flashcards, numFlashcards,
                           fcSelectedTopics)

\* A quiz of five questions drawn from the pool of six, the question of the
\* second topic among them and the first question of the pool left out.
C9_Witness ==
  /\ InSession
  /\ Len(activeQuestions) = 5
  /\ Len(filteredQuestions) = 6
  /\ \E k \in 1..5 : activeQuestions[k].topic = "b"
  /\ \A k \in 1..5 : activeQuestions[k] # quizData.questions[1]

\* ------------------------------------------------- C10: the Fisher-Yates loop

\* A pool of n distinct questions.
PoolOf(n) == MkQuestions(0, Repeat("a", n))

RECURSIVE Factorial(_)
Factorial(n) == IF n <= 1 THEN 1 ELSE n * Factorial(n - 1)

\* A pool size and two sequences of draws, the loop not yet run.
InitShuffle ==
  /\ InitApp(InitialLibrary)
  /\ quizProgress = absent
  /\ InitNoViews
  /\ poolSize \in 0..MaxPool
  /\ drawsA \in DrawsFor(poolSize)
  /\ drawsB \in DrawsFor(poolSize)
  /\ shuffledA = <<>>
  /\ shuffledB = <<>>
  /\ FinishedIdle
  /\ SideIdle
  /\ LibraryAtRest

\* The loop of handleStartNewQuiz (QuizView.tsx 126-130) run on the pool
\* with the first sequence of draws
ShuffleA ==
  /\ shuffledA = <<>>
  /\ shuffledA' = FisherYates(PoolOf(poolSize), drawsA)
  /\ UNCHANGED <<appVars, quizProgress, quizVars, fcVars, poolSize, drawsA,
                 drawsB, shuffledB, finishedVars, libVars, sideVars>>

\* and with the second one
ShuffleB ==
  /\ shuffledB = <<>>
  /\ shuffledB' = FisherYates(PoolOf(poolSize), drawsB)
  /\ UNCHANGED <<appVars, quizProgress, quizVars, fcVars, poolSize, drawsA,
                 drawsB, shuffledA, finishedVars, libVars, sideVars>>

NextShuffle == ShuffleA \/ ShuffleB

SpecShuffle == InitShuffle /\ [][NextShuffle]_vars

\* Both runs of the loop are done.
BothShuffled == Len(shuffledA) = poolSize /\ Len(shuffledB) = poolSize

\* s holds every item of the pool of n exactly once.
IsPermutation(s, n) ==
  /\ Len(s) = n
  /\ \A p \in 1..n : \E k \in 1..n : s[k] = PoolOf(n)[p]

\* C10: for a pool of n items the Fisher-Yates loop maps the n! sequences of
\* draws (j in 0..i for i = n-1 down to 1) one-to-one onto the n!
\* permutations of the pool; the same draws give the same permutation and
\* the same sliced deck.
C10_ShuffleIsBijection ==
  /\ Cardinality(DrawsFor(poolSize)) = Factorial(poolSize)
  /\ BothShuffled =>
       /\ IsPermutation(shuffledA, poolSize)
       /\ IsPermutation(shuffledB, poolSize)
       /\ (shuffledA = shuffledB) = (drawsA = drawsB)
       /\ drawsA = drawsB =>
            \A count \in 0..poolSize : Slice(shuffledA, count) = Slice(shuffledB, count)

\* Two different sequences of draws over the largest pool, two different
\* permutations of it.
C10_Witness ==
  /\ poolSize = MaxPool
  /\ BothShuffled
  /\ drawsA # drawsB
  /\ shuffledA # shuffledB
  /\ shuffledA # PoolOf(poolSize)

\* ----------------------------------------------- C11: the pass threshold

\* Math.round(num / den) for num >= 0, den > 0: the nearest integer, a half
\* going up.
MathRound(num, den) == (2 * num + den) \div (2 * den)

\* percentageScore (QuizView.tsx 390)
PercentageScore(correctAnswers, length) == MathRound(100 * correctAnswers, length)

\* The verdict for a percentage strictly above ninety only.
PassedAbove(percentageScore) == percentageScore > 90

\* passed (QuizView.tsx 391)
Passed(percentageScore) == percentageScore >= 90

\* A finished deck of 1 to 20 questions (maxQuestions, QuizView.tsx 64) with
\* any number of them answered correctly, the screen not yet rendered.
InitFinished ==
  /\ InitApp(InitialLibrary)
  /\ quizProgress = absent
  /\ InitNoViews
  /\ ShuffleIdle
  /\ SideIdle
  /\ LibraryAtRest
  /\ deckSize \in 1..MaxQuizCount
  /\ correctCount \in 0..deckSize
  /\ percentageShown = null
  /\ passedShown = FALSE

\* The finished branch of the render (QuizView.tsx 388-391)
renderFinished ==
  /\ percentageShown = null
  /\ percentageShown' = PercentageScore(correctCount, deckSize)
  /\ passedShown' = Passed(percentageShown')
  /\ UNCHANGED <<appVars, quizProgress, quizVars, fcVars, shuffleVars,
                 deckSize, correctCount, libVars, sideVars>>

NextFinished == renderFinished

SpecFinished == InitFinished /\ [][NextFinished]_vars

\* C11: the finished screen marks the quiz passed exactly when at least 90%
\* of the active questions were answered correctly (10 * correct >= 9 *
\* total), for every deck size from 1 to 20 and every number of correct
\* answers, deciding it by Math.round(correct / total * 100) >= 90.
C11_PassedAtNinetyPercent ==
  percentageShown # null =>
    /\ passedShown = (10 * correctCount >= 9 * deckSize)
    /\ passedShown = (percentageShown >= 90)
    /\ 2 * 100 * correctCount - deckSize < 2 * deckSize * percentageShown
    /\ 2 * deckSize * percentageShown <= 2 * 100 * correctCount + deckSize

\* 17 correct of 19 is 89.47%: rendered as 89 and not passed.
C11_Witness ==
  /\ deckSize = 19
  /\ correctCount = 17
  /\ percentageShown = 89
  /\ passedShown = FALSE

\* ------------------------------------------------------ the library service

\* x placed in front of the entries as new as it: a sort that is not stable.
InsertByDateBeforeTies(sorted, x) ==
  LET at == Cardinality({k \in 1..Len(sorted) : sorted[k].savedAt > x.savedAt})
  IN SubSeq(sorted, 1, at) \o <<x>> \o SubSeq(sorted, at + 1, Len(sorted))

\* x placed behind the entries at least as new as it: one step of the
\* stable sort by savedAt descending.
InsertByDate(sorted, x) ==
  LET at == Cardinality({k \in 1..Len(sorted) : sorted[k].savedAt >= x.savedAt})
  IN SubSeq(sorted, 1, at) \o <<x>> \o SubSeq(sorted, at + 1, Len(sorted))

\* The read path without its sort.
SortKeepingOrder(list) == list

\* library.sort((a, b) => new Date(b.savedAt) - new Date(a.savedAt))
\* (index.tsx 62): Array.prototype.sort is stable
RECURSIVE SortNewestFirst(_)
SortNewestFirst(list) ==
  IF list = <<>> THEN <<>>
  ELSE InsertByDate(SortNewestFirst(SubSeq(list, 1, Len(list) - 1)), list[Len(list)])

\* getLibrary with the parse outside its try block.
getLibraryUnguarded(store) ==
  IF store = absent THEN [list |-> <<>>, raised |-> FALSE]
  ELSE IF ~store.valid THEN [list |-> <<>>, raised |-> TRUE]
  ELSE [list |-> SortNewestFirst(JSONparse(store)), raised |-> FALSE]

\* getLibrary (index.tsx 57-68): the list it returns and whether it raises.
\* getItem, JSON.parse and sort all run inside the try block.
getLibrary(store) ==
  IF store = absent THEN [list |-> <<>>, raised |-> FALSE]
  ELSE IF ~store.valid THEN [list |-> <<>>, raised |-> FALSE]
  ELSE [list |-> SortNewestFirst(JSONparse(store)), raised |-> FALSE]

\* saveArticle (index.tsx 70-86) with the id and the time it draws: the list
\* it returns, what it leaves under the key and whether it raises. setItem
\* either writes or throws inside the try block.
saveArticle(store, name, specialty, result, id, now, written) ==
  LET got == getLibrary(store)
      newArticle == [id |-> id, fileName |-> name, specialty |-> specialty,
                     analysisResult |-> result, savedAt |-> now]
      updatedLibrary == <<newArticle>> \o got.list
  IN IF got.raised
     THEN [returned |-> <<>>, store |-> store, raised |-> TRUE]
     ELSE [returned |-> updatedLibrary,
           store |-> IF written THEN JSONstringify(updatedLibrary) ELSE store,
           raised |-> FALSE]

\* deleteArticle (index.tsx 88-97)
deleteArticle(store, articleId, written) ==
  LET got == getLibrary(store)
      updatedLibrary == SelectSeq(got.list, LAMBDA article : article.id # articleId)
  IN IF got.raised
     THEN [returned |-> <<>>, store |-> store, raised |-> TRUE]
     ELSE [returned |-> updatedLibrary,
           store |-> IF written THEN JSONstringify(updatedLibrary) ELSE store,
           raised |-> FALSE]

\* handleSaveToLibrary (index.tsx 691), from the form shown with a result
\* not yet saved (index.tsx 697). An error raised by the service leaves the
\* handler before its state updates.
handleSaveToLibrary(specialty, written) ==
  /\ ResultShown(apiKeySelected, appState, isLoading, error, analysisResult)
  /\ ~isCurrentArticleSaved
  /\ fileName # ""
  /\ nextId <= LargestId(InitialLibrary) + MaxSaves
  /\ LET done == saveArticle(libraryStore, fileName, specialty, analysisResult,
                             nextId, clock, written)
     IN /\ libraryStore' = done.store
        /\ IF done.raised
           THEN UNCHANGED <<library, isCurrentArticleSaved>>
           ELSE library' = done.returned /\ isCurrentArticleSaved' = TRUE
  /\ nextId' = nextId + 1
  /\ lastSaved' = [id |-> nextId, before |-> getLibrary(libraryStore).list,
                   over |-> libraryStore]
  /\ undone' = FALSE
  /\ UNCHANGED <<isLoading, error, analysisResult, currentView, fileName,
                 appState, apiKeySelected, pendingFile, storedKey, inFlight>>
  /\ Rerender(quizProgress)
  /\ UNCHANGED <<shuffleVars, finishedVars, clock, tabs, sideVars>>

\* handleDeleteArticle (index.tsx 692) with the confirmation accepted, from
\* the delete button of an article of the list on screen
handleDeleteArticle(articleId, written) ==
  /\ LibraryShown
  /\ \E k \in 1..Len(library) : library[k].id = articleId
  /\ LET done == deleteArticle(libraryStore, articleId, written)
     IN /\ libraryStore' = done.store
        /\ IF done.raised THEN UNCHANGED library ELSE library' = done.returned
  /\ IF lastSaved # nullObject /\ lastSaved.id = articleId /\ written
     THEN undone' = TRUE /\ UNCHANGED lastSaved
     ELSE undone' = FALSE /\ lastSaved' = nullObject
  /\ UNCHANGED <<isLoading, error, analysisResult, currentView, fileName,
                 appState, isCurrentArticleSaved, apiKeySelected, pendingFile,
                 storedKey, inFlight>>
  /\ Rerender(quizProgress)
  /\ UNCHANGED <<shuffleVars, finishedVars, clock, nextId, tabs, sideVars>>

\* Time passes.
Tick ==
  /\ clock < NewestSavedAt(InitialLibrary) + MaxTicks
  /\ clock' = clock + 1
  /\ UNCHANGED <<appVars, quizProgress, quizVars, fcVars, shuffleVars,
                 finishedVars, libraryStore, nextId, lastSaved, undone, tabs,
                 sideVars>>

\* What the library key can hold when the app starts: nothing, an
\* unreadable value, or a list of earlier saves, in any stored order and
\* with equal or different timestamps.
StoredLibraries ==
  {absent, corrupt}
  \cup {JSONstringify(list) : list \in
          { <<>>,
            << SavedArticleOf(1), SavedArticleOf(2), SavedArticleOf(3) >>,
            << ArticleOf(2, 2, 1), ArticleOf(1, 3, 3), ArticleOf(3, 1, 3) >> }}

\* The app constructed over any of these: setLibrary(getLibrary())
\* (index.tsx 594).
InitLibrary ==
  /\ libraryStore \in StoredLibraries
  /\ InitApp(getLibrary(libraryStore).list)
  /\ quizProgress = absent
  /\ InitNoViews
  /\ ShuffleIdle
  /\ FinishedIdle
  /\ SideIdle
  /\ LibraryHolds(InitialLibrary)

\* The file every analysis of this specification is made of.
LibraryFile == CHOOSE file \in UploadFiles : TRUE

\* The smallest analysis result.
LibraryResult == CHOOSE result \in SmallResults : TRUE

\* The App's handlers on the way to a result and to the library, with the
\* library's own, the views left untouched.
NextLibrary ==
  \/ handleSaveManualKey
  \/ handleViewLibrary
  \/ handleResetToHome
  \/ handleStartNewAnalysis
  \/ \E k \in 1..Len(library) : handleViewSavedArticle(library[k])
  \/ handleFileUpload(LibraryFile)
  \/ handleStartAnalysis
  \/ AnalysisSucceeds(LibraryResult)
  \/ \E written \in BOOLEAN : handleSaveToLibrary("Cardiology", written)
  \/ \E articleId \in 1..(LargestId(InitialLibrary) + MaxSaves), written \in BOOLEAN :
       handleDeleteArticle(articleId, written)
  \/ Tick

SpecLibrary == InitLibrary /\ [][NextLibrary]_vars

\* ---------------------------------------------------------------- C12

\* The list read back after an article is saved over this store under a fresh
\* id and then deleted by that id, both writes succeeding.
SavedThenDeleted(store) ==
  LET saved == saveArticle(store, "new.pdf", "Cardiology", LibraryResult,
                           nextId, clock, TRUE)
      deleted == deleteArticle(saved.store, saved.returned[1].id, TRUE)
  IN [returned |-> deleted.returned, read |-> getLibrary(deleted.store).list]

\* Two entries of the list carry the same savedAt.
SharesSavedAt(list) ==
  \E i, j \in 1..Len(list) : i # j /\ list[i].savedAt = list[j].savedAt

\* C12: saving an article and then deleting it by the id it was given leaves
\* the list getLibrary returns exactly as it was before the save, entries and
\* order, whatever the library held, entries of equal savedAt included: both
\* for the save and delete the service would make from any reachable store,
\* and for the save and delete the user has just made through the App.
C12_SaveThenDeleteRestores ==
  /\ SavedThenDeleted(libraryStore).read = getLibrary(libraryStore).list
  /\ SavedThenDeleted(libraryStore).returned = getLibrary(libraryStore).list
  /\ undone => /\ getLibrary(libraryStore).list = lastSaved.before
               /\ library = lastSaved.before

\* An article was saved over a library with two entries of the same savedAt
\* and then deleted.
C12_Witness ==
  /\ undone
  /\ SharesSavedAt(lastSaved.before)
  /\ library = lastSaved.before

\* ---------------------------------------------------------------- C13

\* Sorted by savedAt descending.
NewestFirst(list) ==
  \A i \in 1..(Len(list) - 1) : list[i].savedAt >= list[i + 1].savedAt

\* What a call of saveArticle made now would return and write back.
SavedNow == saveArticle(libraryStore, "new.pdf", "Cardiology", LibraryResult,
                        nextId, clock, TRUE)

\* The ids a delete can be asked for.
ArticleIds == 1..(LargestId(InitialLibrary) + MaxSaves + 1)

\* The step is a call of handleSaveToLibrary.
SaveStep == nextId' # nextId

\* C13: the library is ordered newest first. The list getLibrary returns is
\* sorted by savedAt descending whatever order is stored; the list the App
\* holds is; the list saveArticle returns and writes back is, with the newly
\* saved article first; the list deleteArticle returns and writes back is;
\* and each save made through the App leaves the new article first.
C13_NewestFirst ==
  /\ [](/\ NewestFirst(getLibrary(libraryStore).list)
        /\ NewestFirst(library)
        /\ NewestFirst(SavedNow.returned)
        /\ NewestFirst(JSONparse(SavedNow.store))
        /\ SavedNow.returned[1].id = nextId
        /\ JSONparse(SavedNow.store)[1].id = nextId
        /\ \A articleId \in ArticleIds :
             LET deleted == deleteArticle(libraryStore, articleId, TRUE)
             IN /\ NewestFirst(deleted.returned)
                /\ NewestFirst(JSONparse(deleted.store)))
  /\ [][SaveStep => library'[1].id = nextId /\ NewestFirst(library')]_vars

\* An article saved at a later time over a library that was stored out of
\* order with entries of equal savedAt stands first in the list held and
\* written back.
C13_Witness ==
  /\ lastSaved # nullObject
  /\ ~undone
  /\ Len(library) = 4
  /\ library[1].id = lastSaved.id
  /\ library[1].savedAt > library[2].savedAt
  /\ SharesSavedAt(library)
  /\ libraryStore = JSONstringify(library)

\* ---------------------------------------------------------------- C14

\* C14: when the stored library value cannot be deserialized, getLibrary
\* returns the empty list and raises no error, and saveArticle and
\* deleteArticle called on it complete without raising, treating the library
\* as empty.
C14_UnreadableLibraryIsEmpty ==
  libraryStore = corrupt =>
    /\ getLibrary(libraryStore) = [list |-> <<>>, raised |-> FALSE]
    /\ \A written \in BOOLEAN :
         LET saved == saveArticle(libraryStore, "new.pdf", "Cardiology",
                                  LibraryResult, nextId, clock, written)
         IN ~saved.raised /\ Len(saved.returned) = 1
    /\ \A articleId \in ArticleIds, written \in BOOLEAN :
         LET deleted == deleteArticle(libraryStore, articleId, written)
         IN ~deleted.raised /\ deleted.returned = <<>>

\* The App came up over a stored value it could not parse and showed an
\* empty library; the next save went through and replaced the value by a
\* library of the one new article.
C14_Witness ==
  /\ lastSaved # nullObject
  /\ lastSaved.over = corrupt
  /\ lastSaved.before = <<>>
  /\ isCurrentArticleSaved
  /\ Len(library) = 1
  /\ libraryStore = JSONstringify(library)

\* ---------------------------------------------------------------- C15

\* The ids of the articles under the library key.
PersistedIds ==
  {getLibrary(libraryStore).list[k].id : k \in 1..Len(getLibrary(libraryStore).list)}

\* The result on screen is marked as saved by the save just made.
ShownAsSaved ==
  /\ ResultShown(apiKeySelected, appState, isLoading, error, analysisResult)
  /\ isCurrentArticleSaved
  /\ lastSaved # nullObject
  /\ ~undone

\* C15: a storage write that fails during saveArticle or deleteArticle makes
\* the operation a no-op: the persisted list is unchanged and nothing is
\* raised, and the library list the App holds and the saved indication it
\* shows agree with what is persisted.
C15_FailedWriteIsNoOp ==
  /\ LET saved == saveArticle(libraryStore, "new.pdf", "Cardiology",
                              LibraryResult, nextId, clock, FALSE)
     IN saved.store = libraryStore /\ ~saved.raised
  /\ \A articleId \in ArticleIds :
       LET deleted == deleteArticle(libraryStore, articleId, FALSE)
       IN deleted.store = libraryStore /\ ~deleted.raised
  /\ library = getLibrary(libraryStore).list
  /\ ShownAsSaved => lastSaved.id \in PersistedIds

\* ------------------------------------------------------------- two tabs

Tabs == {1, 2}

OtherTab(t) == 3 - t

\* What a tab can be asked: to save a new article, under an id of its own,
\* or to delete one of the articles of the stored library.
TabOps(t) ==
  {[kind |-> "save", id |-> LargestId(InitialLibrary) + t]}
  \cup {[kind |-> "delete", id |-> id] : id \in 1..LargestId(InitialLibrary)}

\* Two tabs of the application over the same stored library, each about to
\* call saveArticle or deleteArticle.
InitTabs ==
  /\ libraryStore \in StoredLibraries
  /\ InitApp(getLibrary(libraryStore).list)
  /\ quizProgress = absent
  /\ InitNoViews
  /\ ShuffleIdle
  /\ FinishedIdle
  /\ SideIdle
  /\ clock = NewestSavedAt(InitialLibrary)
  /\ nextId = LargestId(InitialLibrary) + 1
  /\ lastSaved = nullObject
  /\ undone = FALSE
  /\ tabs \in [Tabs -> {[pc |-> "idle", op |-> op, read |-> <<>>, raced |-> FALSE] :
                          op \in TabOps(1) \cup TabOps(2)}]
  /\ \A t \in Tabs : tabs[t].op \in TabOps(t)

\* const library = getLibrary() (index.tsx 71, 89) in tab t. The read races
\* with the other tab's call when that call has read and not yet written.
TabRead(t) ==
  /\ tabs[t].pc = "idle"
  /\ LET racing == tabs[OtherTab(t)].pc = "read"
     IN tabs' = [tabs EXCEPT
                   ![t] = [@ EXCEPT !.pc = "read",
                                     !.read = getLibrary(libraryStore).list,
                                     !.raced = racing],
                   ![OtherTab(t)] = [@ EXCEPT !.raced = @ \/ racing]]
  /\ UNCHANGED <<appVars, quizProgress, quizVars, fcVars, shuffleVars,
                 finishedVars, libraryStore, clock, nextId, lastSaved, undone,
                 sideVars>>

\* The list tab t reads at the moment of its write: a read-modify-write made
\* in one piece.
TabBaseAtWrite(t) == getLibrary(libraryStore).list

\* The list the write of tab t is computed from: the one its call read.
TabBase(t) == tabs[t].read

\* updatedLibrary of tab t (index.tsx 81, 90)
TabUpdated(t) ==
  IF tabs[t].op.kind = "save"
  THEN <<ArticleOf(tabs[t].op.id, LibraryResult, clock)>> \o TabBase(t)
  ELSE SelectSeq(TabBase(t), LAMBDA article : article.id # tabs[t].op.id)

\* localStorage.setItem(LIBRARY_KEY, JSON.stringify(updatedLibrary))
\* (index.tsx 82, 92) in tab t
TabWrite(t) ==
  /\ tabs[t].pc = "read"
  /\ libraryStore' = JSONstringify(TabUpdated(t))
  /\ tabs' = [tabs EXCEPT ![t].pc = "done"]
  /\ UNCHANGED <<appVars, quizProgress, quizVars, fcVars, shuffleVars,
                 finishedVars, clock, nextId, lastSaved, undone, sideVars>>

NextTabs == \E t \in Tabs : TabRead(t) \/ TabWrite(t)

SpecTabs == InitTabs /\ [][NextTabs]_vars

\* ---------------------------------------------------------------- C16

TabsDone == \A t \in Tabs : tabs[t].pc = "done"

\* The operation of tab t is not reflected in storage: the article it saved
\* is not there, or the article it deleted is.
UpdateLost(t) ==
  IF tabs[t].op.kind = "save"
  THEN tabs[t].op.id \notin PersistedIds
  ELSE tabs[t].op.id \in PersistedIds

\* One call read between the read and the write of the other.
Raced == \E t \in Tabs : tabs[t].raced

\* C16: the library key is read, modified and written in separate steps, so
\* two tabs can lose an update. Once both calls have completed, an update is
\* lost only if one call read between the read and the write of the other;
\* and when two saves race in that way, one of the two saved articles is
\* missing from storage.
C16_LostUpdateOnlyByRace ==
  TabsDone =>
    /\ (\E t \in Tabs : UpdateLost(t)) => Raced
    /\ (Raced /\ \A t \in Tabs : tabs[t].op.kind = "save") =>
         \E t \in Tabs : UpdateLost(t) /\ ~UpdateLost(OtherTab(t))

\* Both calls have completed after a race, and the article tab 1 saved is
\* missing from storage because tab 2 wrote back the list it had read
\* before, less the article it deleted.
C16_Witness ==
  /\ TabsDone
  /\ Raced
  /\ tabs[1].op.kind = "save"
  /\ tabs[2].op.kind = "delete"
  /\ UpdateLost(1)
  /\ tabs[2].read # <<>>

\* ---------------------------------------------------------------- C17

\* The messages of the two API-key validation failures: no key configured
\* (index.tsx 146) and the key rejected by the AI service, as rewrapped by
\* generateMedicalAnalysis (index.tsx 217).
KeyFailureMessages ==
  { "API Key not found. Please select or enter an API Key to continue.",
    "The provided API Key is not valid. Please check your key." }

\* The stored credential is gone and the key-entry screen is shown.
KeyReset == ~storedKey /\ ~apiKeySelected

\* C17: every API-key validation failure of an analysis, no key configured
\* or the key rejected as invalid, removes the stored credential, sets
\* apiKeySelected to false and routes back to the key-entry screen.
C17_KeyFailureResetsKey ==
  [][\A message \in KeyFailureMessages : AnalysisFails(message) => KeyReset']_vars

\* ---------------------------------------------------------------- C18

\* The failures that are not about the key: the AI call failing or answering
\* in another shape (index.tsx 219) and the empty extracted text (index.tsx
\* 664); an error of the PDF extraction takes the same branch of the catch.
AbortMessages == ErrorMessages \ KeyFailureMessages

\* renderAnalysisView's error branch with its Try Again (index.tsx 696)
ErrorPanelShown == AnalysisShown /\ ~isLoading /\ error # nullString

\* renderAnalysisView's last branch: FileUpload, no file pending
\* (index.tsx 699)
UploadShown ==
  /\ AnalysisShown
  /\ ~isLoading
  /\ error = nullString
  /\ analysisResult = 0
  /\ pendingFile = nullString

\* C18: a failed analysis aborts the whole analysis. After the failure
\* isLoading is false, no analysis result is held, so none is displayed, and
\* the one error message is on screen; acknowledging it (Try Again) shows
\* the upload screen with no pending file.
C18_FailedAnalysisAborts ==
  [][(\A message \in AbortMessages :
        AnalysisFails(message) =>
          ~isLoading' /\ analysisResult' = 0 /\ ErrorPanelShown')
     /\ ((ErrorPanelShown /\ handleStartNewAnalysis) => UploadShown')]_vars

\* ---------------------------------------------------------------- C19

\* C19: at most one document analysis is in flight at any time. While
\* isLoading is true no step starts another one, whatever the user does in
\* between: Library, Back to Home, Get Started, opening a saved article.
C19_OneAnalysisInFlight ==
  /\ [](inFlight <= 1 /\ (isLoading <=> inFlight = 1))
  /\ [][isLoading => inFlight' <= inFlight]_vars

\* An analysis is in flight while the user, gone through the library, has a
\* saved article open behind the spinner.
C19_Witness ==
  /\ inFlight = 1
  /\ isLoading
  /\ AnalysisShown
  /\ analysisResult # 0
  /\ isCurrentArticleSaved

\* ------------------------------------------------- the quiz under fairness

\* A result opened on its Quiz or Flashcards tab.
InitQuiz == \E r \in SmallResults : InitOnTab(r)

\* The quiz, and the tabs that unmount and mount it.
NextQuiz ==
  \/ QuizNext
  \/ \E view \in {"summary", "quiz", "flashcards"} : setCurrentView(view)

\* A pending setTimeout callback of the mounted view runs once its delay has
\* elapsed (QuizView.tsx 199-201): the event loop is weakly fair to it. No
\* click of the user is ever forced.
SpecQuiz == InitQuiz /\ [][NextQuiz]_vars /\ WF_vars(revealExplanation)

\* ---------------------------------------------------------------- C20

\* C20: after a question is answered its explanation, and with it the
\* Next / Finish button, is eventually revealed, unless the user leaves the
\* question screen before.
C20_ExplanationRevealed ==
  (QuestionShown /\ isAnswered) ~> (showExplanation \/ ~QuestionShown)

\* ------------------------------------------------- the parts on their own

\* The application as constructed, nothing stored, no view mounted, for the
\* specifications of a part that does not depend on it.
AppAtRest ==
  /\ InitApp(InitialLibrary)
  /\ quizProgress = absent
  /\ InitNoViews
  /\ ShuffleIdle
  /\ FinishedIdle
  /\ LibraryAtRest

appAndLabVars == <<appVars, quizProgress, quizVars, fcVars, shuffleVars,
                   finishedVars, libVars>>

\* ----------------------------------------------------------- CSV export

\* The characters of a flashcard field: the three the export treats
\* specially and an ordinary one. A text is a sequence of them.
Chars == {",", "\"", "\n", "a"}

Fields == UNION {[1..n -> Chars] : n \in 0..MaxFieldLen}

\* /[",\n]/.test(field) (FileUpload.tsx 209)
NeedsQuoting(field) ==
  \E k \in 1..Len(field) : field[k] \in {"\"", ",", "\n"}

\* The replacement leaving the quotes as they are.
ReplaceQuotesKeeping(field) == field

\* field.replace(/"/g, '""') (FileUpload.tsx 210)
RECURSIVE ReplaceQuotes(_)
ReplaceQuotes(field) ==
  IF field = <<>> THEN <<>>
  ELSE (IF Head(field) = "\"" THEN <<"\"", "\"">> ELSE <<Head(field)>>)
       \o ReplaceQuotes(Tail(field))

\* escapeCsvField (FileUpload.tsx 208-213)
escapeCsvField(field) ==
  IF NeedsQuoting(field)
  THEN <<"\"">> \o ReplaceQuotes(field) \o <<"\"">>
  ELSE field

\* const headers = [...]; headers.join(',') + '\n' (FileUpload.tsx 215, 222)
CsvHeader == <<"Termino", ",", "Definicion", ",", "Tema", "\n">>

\* One row of rows, joined and terminated (FileUpload.tsx 216-225)
CsvRow(card) ==
  escapeCsvField(card.term) \o <<",">> \o escapeCsvField(card.definition)
  \o <<",">> \o escapeCsvField(card.topic) \o <<"\n">>

\* csvContent (FileUpload.tsx 222-225)
RECURSIVE CsvRows(_)
CsvRows(cards) ==
  IF cards = <<>> THEN <<>> ELSE CsvRow(Head(cards)) \o CsvRows(Tail(cards))

CsvContent(cards) == CsvHeader \o CsvRows(cards)

\* The flashcard sets exported: none, or one card whose term runs over
\* every field and whose definition is plain or holds a quote and a comma.
CsvDecks ==
  {<<>>} \cup
  {<<[term |-> term, definition |-> definition, topic |-> <<"a">>]>> :
     term \in Fields, definition \in {<<"a">>, <<"\"", ",">>}}

InitCsv ==
  /\ AppAtRest
  /\ worker = nullObject
  /\ loader = nullObject
  /\ csv \in {[cards |-> cards, files |-> <<>>] : cards \in CsvDecks}

\* handleExportCsv (FileUpload.tsx 202-236): with no card it alerts and
\* returns, otherwise it offers csvContent for download.
handleExportCsv ==
  /\ csv # nullObject
  /\ Len(csv.files) < MaxExports
  /\ IF csv.cards = <<>>
     THEN UNCHANGED csv
     ELSE csv' = [csv EXCEPT !.files = Append(@, CsvContent(csv.cards))]
  /\ UNCHANGED <<appAndLabVars, worker, loader>>

NextCsv == handleExportCsv

SpecCsv == InitCsv /\ [][NextCsv]_vars

\* ---------------------------------------------------------------- C21

\* Doubled quotes made single again.
RECURSIVE HalveQuotes(_)
HalveQuotes(text) ==
  IF text = <<>> THEN <<>>
  ELSE IF Len(text) >= 2 /\ text[1] = "\"" /\ text[2] = "\""
       THEN <<"\"">> \o HalveQuotes(SubSeq(text, 3, Len(text)))
       ELSE <<Head(text)>> \o HalveQuotes(Tail(text))

\* The text is enclosed in quotes.
Quoted(text) == Len(text) >= 2 /\ text[1] = "\"" /\ text[Len(text)] = "\""

\* A CSV field read back by the convention: enclosing quotes stripped and
\* doubled quotes halved.
UnescapeCsvField(text) ==
  IF Quoted(text) THEN HalveQuotes(SubSeq(text, 2, Len(text) - 1)) ELSE text

\* The fields of the cards exported.
CsvFields ==
  UNION {{csv.cards[k].term, csv.cards[k].definition, csv.cards[k].topic} :
           k \in 1..Len(csv.cards)}

\* C21: the CSV escaping round-trips. Every field of an exported card,
\* over comma, quote, newline and an ordinary character, is given back by
\* unescaping its escaped form; a field is quoted exactly when it holds a
\* comma, quote or newline; every file exported holds the header and the
\* escaped row, and two exports of the same cards are identical.
C21_CsvEscapingRoundTrips ==
  csv # nullObject =>
    /\ \A field \in CsvFields :
         /\ UnescapeCsvField(escapeCsvField(field)) = field
         /\ Quoted(escapeCsvField(field)) <=> NeedsQuoting(field)
    /\ \A i \in 1..Len(csv.files) :
         /\ csv.files[i] = CsvContent(csv.cards)
         /\ \A j \in 1..Len(csv.files) : csv.files[i] = csv.files[j]

\* A card whose term holds a quote, a comma and a newline was exported
\* twice.
C21_Witness ==
  /\ csv # nullObject
  /\ Len(csv.files) = 2
  /\ \A c \in {",", "\"", "\n"} :
       \E k \in 1..Len(csv.cards[1].term) : csv.cards[1].term[k] = c

\* ------------------------------------------------------- service worker

\* The three fetch listeners of the repository.
WorkerVariants == {"sw.js", "part_000", "part_006"}

\* url.pathname of the requests: a path is a sequence of characters.
Pathnames ==
  { <<"/", "m", ".", "t", "s">>,
    <<"/", "m", ".", "t", "s", "x">>,
    <<"/", "m", ".", "j", "s">>,
    <<"/", "m", ".", "t", "s", ".", "j", "s">>,
    <<"/", "t", "s">>,
    <<"/">> }

\* String.prototype.endsWith
EndsWith(text, suffix) ==
  /\ Len(text) >= Len(suffix)
  /\ SubSeq(text, Len(text) - Len(suffix) + 1, Len(text)) = suffix

\* url.pathname.endsWith('.ts') || url.pathname.endsWith('.tsx')
\* (sw.js 31, part_000 23, part_006 123)
IsTypeScriptPath(pathname) ==
  EndsWith(pathname, <<".", "t", "s">>) \/ EndsWith(pathname, <<".", "t", "s", "x">>)

\* The condition under which the listener of a variant rewrites: only
\* part_000 tests url.origin === self.location.origin (part_000 23)
Intercepts(variant, origin, pathname) ==
  /\ variant = "part_000" => origin = "same"
  /\ IsTypeScriptPath(pathname)

\* What the network answers: a response that is ok or not, with the
\* Content-Type of the host, or no response at all.
NetworkOutcomes ==
  {[kind |-> "response", ok |-> ok, contentType |-> type] :
     ok \in BOOLEAN, type \in {"video/mp2t", "text/plain"}}
  \cup {[kind |-> "network error"]}

\* headers.set('Content-Type', ...) (sw.js 40, part_000 37, part_006 133)
JavaScriptType(variant) ==
  IF variant = "part_000" THEN "application/javascript; charset=utf-8"
  ELSE "application/javascript"

InitWorker ==
  /\ AppAtRest
  /\ csv = nullObject
  /\ loader = nullObject
  /\ worker \in {[variant |-> variant, origin |-> origin, pathname |-> pathname,
                   served |-> nullObject] :
                    variant \in WorkerVariants, origin \in {"same", "other"},
                    pathname \in Pathnames}

\* The fetch listener run to the response the page receives (sw.js 26-76,
\* part_000 19-61, part_006 120-151). An intercepted request is fetched and
\* an ok response gets its Content-Type set; sw.js has no catch, so its
\* network error reaches the page as such. Any other request is answered
\* from the cache or the network unchanged, or left to the browser.
FetchListener(outcome, cached) ==
  /\ worker # nullObject
  /\ worker.served = nullObject
  /\ worker' = [worker EXCEPT !.served =
       IF Intercepts(worker.variant, worker.origin, worker.pathname)
       THEN IF outcome.kind = "network error"
            THEN IF worker.variant = "sw.js"
                 THEN [kind |-> "network error"]
                 ELSE [kind |-> "response", ok |-> FALSE, contentType |-> "text/plain",
                       by |-> "worker"]
            ELSE IF ~outcome.ok
                 THEN [kind |-> "response", ok |-> FALSE,
                       contentType |-> outcome.contentType, by |-> "network"]
                 ELSE [kind |-> "response", ok |-> TRUE,
                       contentType |-> JavaScriptType(worker.variant), by |-> "worker"]
       ELSE IF cached /\ worker.variant # "part_000"
            THEN [kind |-> "response", ok |-> TRUE, contentType |-> "text/plain",
                  by |-> "cache"]
            ELSE IF outcome.kind = "network error"
                 THEN [kind |-> "network error"]
                 ELSE [kind |-> "response", ok |-> outcome.ok,
                       contentType |-> outcome.contentType, by |-> "network"]]
  /\ UNCHANGED <<appAndLabVars, csv, loader>>

NextWorker == \E outcome \in NetworkOutcomes, cached \in BOOLEAN : FetchListener(outcome, cached)

SpecWorker == InitWorker /\ [][NextWorker]_vars

\* ---------------------------------------------------------------- C22

\* The page received a response whose Content-Type the worker set to a
\* JavaScript type.
ContentTypeRewritten ==
  /\ worker # nullObject
  /\ worker.served # nullObject
  /\ worker.served.kind = "response"
  /\ worker.served.ok
  /\ worker.served.by = "worker"
  /\ worker.served.contentType = JavaScriptType(worker.variant)

\* C22: in every service-worker variant the Content-Type is rewritten only
\* for same-origin requests whose path ends in .ts or .tsx; a request to
\* another origin, or for another extension, is never rewritten.
C22_RewriteOnlySameOriginTs ==
  ContentTypeRewritten =>
    worker.origin = "same" /\ IsTypeScriptPath(worker.pathname)

\* ---------------------------------------------------------------- C23

\* At least one answer of the session has been given.
AnsweredSome == \E k \in 1..Len(userAnswers) : userAnswers[k] # null

\* What an interruption now would leave for a Resume: the progress key holds
\* the position, score and answers of the session as they stand.
SnapshotIsCurrent ==
  /\ quizProgress \notin {absent, corrupt}
  /\ JSONparse(quizProgress).quizTitle = quizData.quizTitle
  /\ JSONparse(quizProgress).currentQuestionIndex = currentQuestionIndex
  /\ JSONparse(quizProgress).score = score
  /\ JSONparse(quizProgress).userAnswers = userAnswers

\* C23: an in-progress session with at least one answer given, interrupted
\* at any point by an unmount or a reload, is resumed exactly where it was.
\* At every such point the stored snapshot holds the current question index,
\* the score and the recorded answers of the session, and Resume restores
\* them from the snapshot, the question on screen being answered exactly
\* when the snapshot records its answer.
C23_ResumeWhereInterrupted ==
  /\ [](QuestionShown /\ AnsweredSome => SnapshotIsCurrent)
  /\ [][handleResumeQuiz =>
          /\ currentQuestionIndex' = savedProgress.currentQuestionIndex
          /\ score' = savedProgress.score
          /\ userAnswers' = savedProgress.userAnswers
          /\ isAnswered' = SnapshotAnswersCurrent]_vars

\* ---------------------------------------------------------------- C24

\* C24: the explanation is shown only for an answered question: whenever
\* the quiz view is on screen showExplanation implies isAnswered, and no
\* reveal timer is pending while an unanswered question is displayed, so
\* the timer of an earlier question cannot fire on a later one.
C24_ExplanationOnlyWhenAnswered ==
  /\ QuizViewRendered /\ showExplanation => isAnswered
  /\ QuestionShown /\ ~isAnswered => timers = 0

\* The second question is on screen, unanswered and without explanation,
\* after the timer of the first has run.
C24_Witness ==
  /\ QuestionShown
  /\ currentQuestionIndex = 1
  /\ userAnswers[1] # null
  /\ ~isAnswered
  /\ ~showExplanation
  /\ timers = 0

\* ---------------------------------------------------------------- C25

\* A step that accepts an answer while the storage write fails.
AcceptsAnswerUnstored ==
  /\ QuestionShown
  /\ ~isAnswered
  /\ \E index \in 0..(NumOptions - 1) : handleAnswerSelect(index, FALSE)

\* The question on screen was answered while the write failed: it is
\* answered, its explanation is not shown and no timer is pending.
AnsweredUnstored ==
  QuestionShown /\ isAnswered /\ ~showExplanation /\ timers = 0

\* C25: a storage write failure while answering is a no-op for persistence
\* only. The answer and the score are recorded in the session and the stored
\* snapshot stays as it was; the explanation is still eventually revealed, so
\* that the quiz can be advanced and finished.
C25_WriteFailureOnlyLosesSnapshot ==
  /\ [][AcceptsAnswerUnstored =>
          /\ isAnswered'
          /\ userAnswers'[currentQuestionIndex + 1] # null
          /\ score' = NewScore(userAnswers'[currentQuestionIndex + 1])
          /\ quizProgress' = quizProgress]_vars
  /\ (AnsweredUnstored ~> (showExplanation \/ ~QuestionShown))

\* ---------------------------------------------------------------- C26

\* Every active question is a question of the quiz on screen.
ActiveFromLoadedQuiz ==
  \A k \in 1..Len(activeQuestions) :
    \E q \in 1..Len(quizData.questions) : activeQuestions[k] = quizData.questions[q]

\* C26: after a Resume every active question is one of the questions of the
\* currently loaded quiz, and stays so while the session is on screen: a
\* snapshot taken on one analysis is never resumed inside the quiz of
\* another, whatever the navigation through the library, saved articles and
\* tabs.
C26_ResumedInOwnQuiz ==
  /\ [][handleResumeQuiz => ActiveFromLoadedQuiz']_vars
  /\ [](InSession => ActiveFromLoadedQuiz)

\* ---------------------------------------------------------------- C27

\* C27: when the quiz is finished every active question has a recorded,
\* non-null answer: none can be skipped, Next being available only once the
\* question on screen is answered, also after a Resume.
C27_FinishedAllAnswered ==
  FinishedShown =>
    /\ Len(userAnswers) = Len(activeQuestions)
    /\ \A k \in 1..Len(activeQuestions) : userAnswers[k] # null

\* A quiz of two questions was finished in a mount that found a snapshot to
\* resume.
C27_Witness ==
  /\ FinishedShown
  /\ Len(activeQuestions) = 2
  /\ mountFound = "same title"
  /\ userAnswers[1] # null
  /\ userAnswers[2] # null

\* ---------------------------------------------------------------- C28

\* The question on screen, currentQuestion = activeQuestions[currentQuestionIndex]
\* (QuizView.tsx 167), is defined.
QuestionDefined ==
  /\ currentQuestionIndex \in 0..(Len(activeQuestions) - 1)
  /\ Len(userAnswers) = Len(activeQuestions)

\* The library of a session that holds the document without questions next
\* to a document of the same quiz title.
EmptyQuizLibrary == << SavedArticleOf(6), SavedArticleOf(1) >>

InitEmptyQuiz ==
  /\ InitApp(EmptyQuizLibrary)
  /\ quizProgress = absent
  /\ InitNoViews
  /\ ShuffleIdle
  /\ FinishedIdle
  /\ libraryStore = JSONstringify(EmptyQuizLibrary)
  /\ LibraryHolds(EmptyQuizLibrary)
  /\ SideIdle

\* Rendering a question that is not defined throws (QuizView.tsx 467-469 read
\* currentQuestion.questionText and currentQuestion.options) and React
\* unmounts the tree: no handler runs any more.
NextEmptyQuiz == (QuestionShown => QuestionDefined) /\ Next

SpecEmptyQuiz == InitEmptyQuiz /\ [][NextEmptyQuiz]_vars

\* C28: in every in-progress state (quiz started and not finished)
\* 0 <= currentQuestionIndex < Len(activeQuestions) and userAnswers is as
\* long as activeQuestions, so that the question on screen is defined,
\* whether the session was entered by Start New Quiz from the configuration
\* panel, by Start New Quiz from the resume panel or by Resume.
C28_QuestionDefined == QuestionShown => QuestionDefined

\* ---------------------------------------------------------------- C29

\* The result on screen carries "This analysis is saved in your library."
\* (index.tsx 697).
SavedIndicationShown ==
  /\ ResultShown(apiKeySelected, appState, isLoading, error, analysisResult)
  /\ isCurrentArticleSaved

\* C29: whenever the analysis view displays a result with the saved
\* indication, the library of the App holds an article with exactly that
\* analysis result and the displayed file name, also when the library and a
\* saved article were opened while an analysis request was in flight and the
\* request completed afterwards.
C29_SavedIndicationIsTrue ==
  SavedIndicationShown =>
    \E k \in 1..Len(library) :
      /\ library[k].analysisResult = analysisResult
      /\ library[k].fileName = fileName

\* ------------------------------------------------------------ the loaders

\* The three loader scripts: src/register-sw.js, src/unnamed/part_005 and
\* the register-sw.js of the fb17464 tree.
LoaderVariants == {"register-sw.js", "part_005", "fb17464/register-sw.js"}

\* The condition of the first branch: 'serviceWorker' in navigator
\* (register-sw.js 4, part_005 4), and 'Babel' in window as well in the
\* fb17464 tree (line 5).
UsesServiceWorker(l) ==
  l.serviceWorker /\ (l.variant = "fb17464/register-sw.js" => l.babel)

\* The page before the loader script runs: the main script is neither
\* requested nor run (its tag, where the variant looks one up, carries a
\* data-src and no src). `settlement` is what the promise chain last
\* settled with and `next` the reaction it is delivered to.
InitLoader ==
  /\ AppAtRest
  /\ csv = nullObject
  /\ worker = nullObject
  /\ loader \in {[variant |-> variant, serviceWorker |-> supported, babel |-> babel,
                   registration |-> "not called", ready |-> "not asked",
                   settlement |-> "none", next |-> "none",
                   loads |-> 0, main |-> "none"] :
                    variant \in LoaderVariants, supported \in BOOLEAN, babel \in BOOLEAN}

\* The guard of loadMainScript: the script tag is already in the document
\* (register-sw.js 9) or already has its src (part_005 8, 14);
\* loadAndRunMainScript of the fb17464 tree has none.
AlreadyLoading(l) == l.variant # "fb17464/register-sw.js" /\ l.main # "none"

\* loadMainScript (register-sw.js 6-22, part_005 5-19) and the start of
\* loadAndRunMainScript (fb17464 6-18): the script element is appended, the
\* src set, or the fetch of the script begun.
loadMainScript(l) ==
  IF AlreadyLoading(l) THEN l
  ELSE [l EXCEPT !.loads = @ + 1, !.main = "requested"]

\* The top level of the loader: register('./sw.js') with its callbacks, or
\* the direct load of the else branch (register-sw.js 47-55, part_005 41-48,
\* fb17464 68-80).
RunLoader ==
  /\ loader # nullObject
  /\ loader.registration = "not called"
  /\ loader.main = "none"
  /\ loader' = IF UsesServiceWorker(loader)
               THEN [loader EXCEPT !.registration = "pending"]
               ELSE [loader EXCEPT !.loads = @ + 1, !.main = "requested"]
  /\ UNCHANGED <<appAndLabVars, csv, worker>>

\* A settled promise is delivered to the then callback when fulfilled and
\* past it to the catch callback when rejected.
Delivered(l, outcome) ==
  [l EXCEPT !.settlement = outcome,
            !.next = IF outcome = "fulfilled" THEN "then" ELSE "catch"]

\* The promise of register() settles.
RegisterSettles(outcome) ==
  /\ loader # nullObject
  /\ loader.registration = "pending"
  /\ loader' = Delivered([loader EXCEPT !.registration = outcome], outcome)
  /\ UNCHANGED <<appAndLabVars, csv, worker>>

\* .then(registration => ...) of register(): navigator.serviceWorker.ready
\* is taken, with its own then and catch (register-sw.js 26-39) or returned
\* into the chain (part_005 23-29, fb17464 50-55).
thenRegistered ==
  /\ loader # nullObject
  /\ loader.ready = "not asked"
  /\ loader.next = "then"
  /\ loader' = [loader EXCEPT !.ready = "pending", !.settlement = "none", !.next = "none"]
  /\ UNCHANGED <<appAndLabVars, csv, worker>>

\* navigator.serviceWorker.ready settles.
ReadySettles(outcome) ==
  /\ loader # nullObject
  /\ loader.ready = "pending"
  /\ loader' = Delivered([loader EXCEPT !.ready = outcome], outcome)
  /\ UNCHANGED <<appAndLabVars, csv, worker>>

\* .then(readyRegistration => ...) (register-sw.js 31-34, part_005 30-33,
\* fb17464 56-60): the main script is loaded. The callback returns
\* undefined and does not throw (loadAndRunMainScript is async and not
\* awaited), so the promise handed to the catch is fulfilled.
thenReady ==
  /\ loader # nullObject
  /\ loader.ready = "fulfilled"
  /\ loader.next = "then"
  /\ loader' = [loadMainScript(loader) EXCEPT !.settlement = "fulfilled", !.next = "catch"]
  /\ UNCHANGED <<appAndLabVars, csv, worker>>

\* A catch whose callback runs whatever the settlement, as a finally.
CatchRunsAlways(settlement) == settlement \in {"fulfilled", "rejected"}

\* Promise.prototype.catch: the callback runs for a rejection only
\* (register-sw.js 34, 40; part_005 34; fb17464 61).
CatchRuns(settlement) == settlement = "rejected"

\* .catch(...) (register-sw.js 34-38 and 40-46, part_005 34-40, fb17464
\* 61-67): after a rejection of register() or of ready the main script is
\* loaded all the same.
catchFailure ==
  /\ loader # nullObject
  /\ loader.next = "catch"
  /\ loader' = [(IF CatchRuns(loader.settlement) THEN loadMainScript(loader) ELSE loader)
                  EXCEPT !.next = "end"]
  /\ UNCHANGED <<appAndLabVars, csv, worker>>

\* The request of the main script ends: the script runs, or script.onerror
\* (register-sw.js 17-19, part_005 11-13) or the catch of
\* loadAndRunMainScript (fb17464 19-21, 43-45) logs the failure.
MainSettles(outcome) ==
  /\ loader # nullObject
  /\ loader.main = "requested"
  /\ loader' = [loader EXCEPT !.main = outcome]
  /\ UNCHANGED <<appAndLabVars, csv, worker>>

NextLoader ==
  \/ RunLoader
  \/ \E outcome \in {"fulfilled", "rejected"} : RegisterSettles(outcome)
  \/ thenRegistered
  \/ \E outcome \in {"fulfilled", "rejected"} : ReadySettles(outcome)
  \/ thenReady
  \/ catchFailure
  \/ \E outcome \in {"run", "failed"} : MainSettles(outcome)

\* The browser settles every promise and runs every queued reaction.
SpecLoader == InitLoader /\ [][NextLoader]_vars /\ WF_vars(NextLoader)

\* ---------------------------------------------------------------- C30

\* Nothing of the loader is pending any more.
LoaderSettled ==
  \/ loader.next = "end"
  \/ loader.registration = "not called" /\ loader.main # "none"

====
